---- MODULE Spec2Model ----
(***************************************************************************)
(* The pull-request validation action: Validator.validate (the pipeline    *)
(* raced against a 30 second timer), GeminiClient.validateContent,         *)
(* GitHubClient (PR extraction, tracked comments, commit status with       *)
(* retry) and the action entry point run(), which publishes the verdict as *)
(* a tracked comment.                                                      *)
(*                                                                         *)
(* Every action is one event-loop turn: from the event that wakes the      *)
(* program (a provider response, a timer) through every synchronous step   *)
(* and promise continuation up to the next await on the network or a timer.*)
(* Provider and model calls take any time, so a pending timer may fire     *)
(* before or after any response; a timer is described by its duration in   *)
(* seconds.  Text is a sequence of tokens.                                 *)
(***************************************************************************)
EXTENDS Integers, Sequences, FiniteSets, TLC

\* ---------------------------------------------------------------- bounds
MaxRuns == 2

\* ------------------------------------------------------ program constants
TimeoutSec == 30
BackoffBaseSec == 1
RetryAttempts == 3
TruncLimit == 1000

\* ------------------------------------------------------------- JS values
UNDEF == [t |-> "undefined"]
JNull == [t |-> "null"]
Str(s) == [t |-> "string", s |-> s]
Num(n) == [t |-> "number", n |-> n]
Arr(a) == [t |-> "array", a |-> a]
Obj(o) == [t |-> "object", o |-> o]

\* JavaScript truthiness of a string-or-undefined value.
Truthy(v) == v.t = "string" /\ v.s # <<>>

\* a ?? b
Coalesce(a, b) == IF a.t \in {"undefined", "null"} THEN b ELSE a

\* String.prototype.includes
StrIncludes(s, p) ==
  \E i \in 0..(Len(s) - Len(p)) : SubSeq(s, i + 1, i + Len(p)) = p

\* the white space String.prototype.trim strips
WhiteSpace == {" ", "\t", "\n"}

RECURSIVE TrimLeft(_)
TrimLeft(s) == IF s # <<>> /\ Head(s) \in WhiteSpace THEN TrimLeft(Tail(s)) ELSE s

RECURSIVE TrimRight(_)
TrimRight(s) ==
  IF s # <<>> /\ s[Len(s)] \in WhiteSpace
    THEN TrimRight(SubSeq(s, 1, Len(s) - 1)) ELSE s

\* String.prototype.trim
Trim(s) == TrimRight(TrimLeft(s))

\* String.prototype.split(','): the segments between the commas.
RECURSIVE SplitComma(_, _)
SplitComma(s, cur) ==
  IF s = <<>> THEN <<cur>>
  ELSE IF Head(s) = "," THEN <<cur>> \o SplitComma(Tail(s), <<>>)
  ELSE SplitComma(Tail(s), Append(cur, Head(s)))

\* Array.prototype.includes on an array of strings
ArrIncludes(a, x) == \E i \in 1..Len(a) : a[i] = x

RECURSIVE Flatten(_)
Flatten(ss) == IF ss = <<>> THEN <<>> ELSE Head(ss) \o Flatten(Tail(ss))

\* ------------------------------------------------------------ the inputs
\* comment-identifier inputs (index.ts, the default and another validator's)
Identifiers == {"ai-validator", "other-validator"}

\* skip-authors inputs: "" and "dev, bot"
SkipAuthorsInputs == { Str(<<>>), Str(<<"dev", ",", " ", "bot">>) }

LegacyPhrase == "Invalid commit message format"

Commit1 == [message |-> <<"fix stuff">>, author |-> [name |-> <<"Dev">>]]

\* PR snapshots the provider may return
PRInputs ==
  { [author |-> Str(<<"alice">>), title |-> <<"feat: x">>, body |-> <<>>,
     commits |-> <<Commit1>>],
    [author |-> Str(<<"bot">>), title |-> <<"chore: bump">>,
     body |-> <<"Bumps x", LegacyPhrase>>, commits |-> <<>>],
    [author |-> UNDEF, title |-> <<LegacyPhrase>>, body |-> <<"d">>,
     commits |-> <<Commit1>>] }

UsageInputs ==
  { UNDEF,
    Obj([promptTokenCount |-> Num(3), candidatesTokenCount |-> Num(2),
         totalTokenCount |-> Num(5)]) }

INVALID == [t |-> "invalid"]

\* what JSON.parse makes of the model's text (INVALID: it throws)
JsonInputs ==
  { INVALID,
    JNull,
    Obj([status |-> Str(<<"PASS">>), issues |-> Arr(<<>>),
         improved_title |-> Str(<<>>), improved_commits |-> Str(<<>>),
         improved_description |-> Str(<<>>)]),
    Obj([status |-> Str(<<"FAIL">>), issues |-> Str(<<"none">>),
         improved_title |-> JNull]) }

\* behaviours of model.generateContent
ModelOutcomes ==
  { [kind |-> "reject"], [kind |-> "notext"] }
  \cup { [kind |-> "text", json |-> j, usage |-> UNDEF] : j \in JsonInputs }
  \cup { [kind |-> "text",
          json |-> Obj([status |-> Str(<<"WARNINGS">>),
                        issues |-> Arr(<<Str(<<"no scope">>)>>),
                        improved_commits |-> Str(<<"fix(core): stuff">>)]),
          usage |-> u] : u \in UsageInputs }

\* ---------------------------------------------------- validator.ts (pure)
\* a skip-author test on the entries as written, white space included
ShouldSkip_Untrimmed(skipAuthors, author) ==
  /\ Truthy(skipAuthors)
  /\ Truthy(author)
  /\ ArrIncludes(SplitComma(skipAuthors.s, <<>>), author.s)

\* the skip-author test of performValidation
ShouldSkip(skipAuthors, author) ==
  /\ Truthy(skipAuthors)
  /\ Truthy(author)
  /\ LET parts == SplitComma(skipAuthors.s, <<>>)
         skipList == [i \in 1..Len(parts) |-> Trim(parts[i])]
     IN  ArrIncludes(skipList, author.s)

SkipVerdict(author) ==
  [valid |-> TRUE,
   suggestions |-> <<<<"Validation skipped for automated PR by ">> \o author.s>>,
   skipped |-> TRUE]

DefaultVerdict == [valid |-> TRUE, suggestions |-> <<>>]

TimeoutError == <<"Validation timeout after 30 seconds">>

\* ------------------------------------------------ gemini-client.ts (pure)
CommitLine(c) == <<"- ">> \o c.message \o <<" (by ">> \o c.author.name \o <<")">>

RECURSIVE JoinLines(_)
JoinLines(ls) ==
  IF ls = <<>> THEN <<>>
  ELSE IF Len(ls) = 1 THEN Head(ls)
  ELSE Head(ls) \o <<"\n">> \o JoinLines(Tail(ls))

\* a prompt that reports the number of changed files
GenerateValidationPrompt_WithStats(pr, guidelines) ==
  <<"Analyze this pull request TEXT FORMAT against the contribution guidelines:",
    "- Title: ">> \o pr.title
  \o <<"- Description: ">>
  \o (IF pr.body # <<>> THEN pr.body ELSE <<"No description provided">>)
  \o <<"- Files changed: ", ToString(pr.diffStats.filesChanged)>>
  \o <<"**Commits:**">>
  \o JoinLines([i \in 1..Len(pr.commits) |-> CommitLine(pr.commits[i])])
  \o <<"**Contribution Guidelines:**">> \o guidelines
  \o <<"IMPORTANT: Validate ONLY the text format">>

GenerateValidationPrompt(pr, guidelines) ==
  <<"Analyze this pull request TEXT FORMAT against the contribution guidelines:",
    "- Title: ">> \o pr.title
  \o <<"- Description: ">>
  \o (IF pr.body # <<>> THEN pr.body ELSE <<"No description provided">>)
  \o <<"**Commits:**">>
  \o JoinLines([i \in 1..Len(pr.commits) |-> CommitLine(pr.commits[i])])
  \o <<"**Contribution Guidelines:**">> \o guidelines
  \o <<"IMPORTANT: Validate ONLY the text format">>

FallbackVerdict ==
  [status |-> Str(<<"FAIL">>),
   issues |-> Arr(<<Str(<<"AI validation unavailable - please review manually">>)>>),
   improved_title |-> Str(<<>>),
   improved_commits |-> Str(<<>>),
   improved_description |-> Str(<<>>),
   tokenUsage |-> [promptTokens |-> Num(0), completionTokens |-> Num(0),
                   totalTokens |-> Num(0)]]

\* the legacy branch of validateContent (the quotient is a fraction in JS
\* when the length is no multiple of 4; the whole part is kept here)
LegacyVerdict(prompt) ==
  [status |-> Str(<<"FAIL">>),
   issues |-> Arr(<<Str(<<"Fix commit message format">>)>>),
   improved_title |-> Str(<<>>),
   improved_commits |-> Str(<<>>),
   improved_description |-> Str(<<>>),
   tokenUsage |-> [promptTokens |-> Num(Len(prompt) \div 4),
                   completionTokens |-> Num(5),
                   totalTokens |-> Num(Len(prompt) \div 4 + 5)]]

\* a validateContent without the legacy branch
IsLegacyPrompt_Never(prompt) == FALSE

IsLegacyPrompt(prompt) == StrIncludes(prompt, <<LegacyPhrase>>)

\* property read x.f of a parsed JSON value that is not null
Prop(j, f) == IF j.t = "object" /\ f \in DOMAIN j.o THEN j.o[f] ELSE UNDEF

\* a try block in which reading a property of null does not throw
TryThrows_NullPasses(o) == o.kind # "text" \/ o.json.t = "invalid"

\* whether the try block of validateContent throws once generateContent
\* settled with outcome o: the call rejected, response.text() threw,
\* JSON.parse threw, or a property of null was read
TryThrows(o) == o.kind # "text" \/ o.json.t \in {"invalid", "null"}

\* the object the try block builds from the parsed response
ParseModelResponse(o) ==
    [status |-> Coalesce(Prop(o.json, "status"), Str(<<"FAIL">>)),
     issues |-> Coalesce(Prop(o.json, "issues"), Arr(<<>>)),
     improved_title |-> Coalesce(Prop(o.json, "improved_title"), Str(<<>>)),
     improved_commits |-> Coalesce(Prop(o.json, "improved_commits"), Str(<<>>)),
     improved_description |->
       Coalesce(Prop(o.json, "improved_description"), Str(<<>>)),
     tokenUsage |->
       [promptTokens |-> Coalesce(Prop(o.usage, "promptTokenCount"), Num(0)),
        completionTokens |->
          Coalesce(Prop(o.usage, "candidatesTokenCount"), Num(0)),
        totalTokens |-> Coalesce(Prop(o.usage, "totalTokenCount"), Num(0))]]

\* a validateContent whose catch block rethrows
ValidateContent_NoCatch(o) ==
  IF TryThrows(o) THEN [ok |-> FALSE, e |-> <<"AI validation failed">>]
  ELSE [ok |-> TRUE, v |-> ParseModelResponse(o)]

\* validateContent once generateContent settled with outcome o: what the try
\* block returns, or what the catch block returns
ValidateContent(o) ==
  IF TryThrows(o) THEN [ok |-> TRUE, v |-> FallbackVerdict]
  ELSE [ok |-> TRUE, v |-> ParseModelResponse(o)]


\* ------------------------------------------------------ formatter.ts (pure)
Field(v, f) == IF f \in DOMAIN v THEN v[f] ELSE UNDEF

\* an issue rendered at its full length
Truncate_Never(s) == s

Truncate(s) ==
  IF Len(s) > TruncLimit THEN SubSeq(s, 1, TruncLimit) \o <<"...">> ELSE s

\* the bullet line of one element of issues
IssueLine(issue) ==
  <<"- ">>
  \o (IF issue.t = "string" THEN Truncate(issue.s) ELSE <<"<", issue.t, ">">>)
  \o <<"\n">>

\* whether formatToMarkdown throws a TypeError on this verdict
FormatThrows(v) ==
  LET issues == Field(v, "issues")
  IN  \/ issues.t \in {"undefined", "null"}
      \/ issues.t = "string" /\ issues.s # <<>>
      \/ issues.t \notin {"string", "array"}
      \/ issues.t = "array"
           /\ \E i \in 1..Len(issues.a) : issues.a[i].t \in {"undefined", "null"}
      \/ \E f \in {"improved_title", "improved_commits", "improved_description"} :
           Field(v, f).t # "string"

Section(head, text) ==
  IF Trim(text) # <<>> THEN <<head, "[fence]\n">> \o text \o <<"\n[fence]\n\n">> ELSE <<>>

\* formatToMarkdown on a verdict it does not throw on; ts is the clock reading in the footer
FormatBody(v, ts) ==
  LET status == Field(v, "status")
      issues == Field(v, "issues")
      items == IF issues.t = "array" THEN issues.a ELSE <<>>
      hasImprovements ==
        \/ Trim(v.improved_title.s) # <<>>
        \/ Trim(v.improved_commits.s) # <<>>
        \/ Trim(v.improved_description.s) # <<>>
  IN  <<"## AI Validation Results\n\n">>
      \o (IF status = Str(<<"PASS">>) THEN <<"### Status: Passed\n">>
          ELSE IF status = Str(<<"WARNINGS">>)
            THEN <<"### Status: Passed with Warnings\n">>
          ELSE <<"### Status: Needs Improvement\n">>)
      \o <<"### Issues Found:\n">>
      \o (IF items = <<>> THEN <<"_No issues detected_\n\n">>
          ELSE Flatten([i \in 1..Len(items) |-> IssueLine(items[i])]))
      \o (IF ~hasImprovements THEN <<>>
          ELSE (IF status = Str(<<"PASS">>) THEN <<"### Optional Enhancements:\n\n">>
                ELSE IF status = Str(<<"WARNINGS">>)
                  THEN <<"### Suggested Improvements:\n\n">>
                ELSE <<"### Required Improvements:\n\n">>)
               \o Section("#### Suggested PR Title:\n", v.improved_title.s)
               \o Section("#### Suggested Commit Message:\n", v.improved_commits.s)
               \o Section("#### Suggested PR Description:\n",
                          v.improved_description.s))
      \o <<"---\n", "_Last updated: ">> \o ts

TypeErrorText == <<"TypeError">>

FormatToMarkdown(v, ts) ==
  IF FormatThrows(v) THEN [ok |-> FALSE, e |-> TypeErrorText]
  ELSE [ok |-> TRUE, md |-> FormatBody(v, ts)]

\* ------------------------------------------------- github/client.ts (pure)
\* the hidden marker of an identifier
IdentifierPattern(identifier) == <<"<!-- ", identifier, " -->">>

\* a body submitted without the marker line
CommentBody_NoMarker(identifier, body) == body

\* the body createComment and updateComment submit
CommentBody(identifier, body) == IdentifierPattern(identifier) \o <<"\n">> \o body

\* a lookup that never finds the tracked comment
FindFirst_Never(list, identifier) == JNull

\* a lookup that returns the last match
FindFirst_Last(list, identifier) ==
  LET hits == { i \in 1..Len(list) :
                  StrIncludes(list[i].body, IdentifierPattern(identifier)) }
  IN  IF hits = {} THEN JNull
      ELSE list[CHOOSE i \in hits : \A j \in hits : i >= j]

\* response.data.find(...) of findCommentByIdentifier: the first match, or null
FindFirst(list, identifier) ==
  LET hits == { i \in 1..Len(list) :
                  StrIncludes(list[i].body, IdentifierPattern(identifier)) }
  IN  IF hits = {} THEN JNull
      ELSE list[CHOOSE i \in hits : \A j \in hits : i <= j]

\* a test that takes every error for a rate limit
IsRateLimitError_All(e) == TRUE

IsRateLimitError(e) == e.status = Num(403) \/ e.status = Num(429)

\* the backoff before retry attempt number `attempt` (0, 1, 2), in seconds
RECURSIVE Pow2(_)
Pow2(n) == IF n <= 0 THEN 1 ELSE 2 * Pow2(n - 1)

BackoffDelay(attempt) == IF attempt > 0 THEN BackoffBaseSec * Pow2(attempt - 1) ELSE 0


\* errorObj.response?.data?.message ?? errorObj.message ?? ''
ErrorMessage(e) ==
  IF "responseMessage" \in DOMAIN e THEN e.responseMessage ELSE e.message

\* a translation that looks at the error's own message only
ExtractError_OwnMessage(e) ==
  IF e.status = Num(404)
    THEN IF StrIncludes(e.message, <<"Issue not found">>)
            \/ StrIncludes(e.message, <<"pull request">>)
           THEN <<"Pull request #", "n", " not found in repository ", "o/r">>
           ELSE <<"Repository ", "o/r", " not found or you don't have access to it">>
  ELSE IF e.status = Num(403)
    THEN <<"Insufficient permissions to access repository ", "o/r">>
  ELSE <<"Failed to fetch PR data: ">> \o e.message

\* extractPRData's translation of a provider error into the error it raises
ExtractError(e) ==
  IF e.status = Num(404)
    THEN IF StrIncludes(ErrorMessage(e), <<"Issue not found">>)
            \/ StrIncludes(ErrorMessage(e), <<"pull request">>)
           THEN <<"Pull request #", "n", " not found in repository ", "o/r">>
           ELSE <<"Repository ", "o/r", " not found or you don't have access to it">>
  ELSE IF e.status = Num(403)
    THEN <<"Insufficient permissions to access repository ", "o/r">>
  ELSE <<"Failed to fetch PR data: ">> \o e.message

\* provider errors (status, message)
ProviderErrors ==
  { [status |-> Num(404), message |-> <<"Issue not found">>],
    [status |-> Num(404), message |-> <<"Not Found">>],
    [status |-> Num(403), message |-> <<"Rate limit exceeded">>],
    [status |-> Num(429), message |-> <<"Rate limit exceeded">>],
    [status |-> Num(500), message |-> <<"Server Error">>],
    [status |-> UNDEF, message |-> <<"Forbidden">>] }

ExtractOutcomes ==
  { [kind |-> "ok", pr |-> p] : p \in PRInputs }
  \cup { [kind |-> "err", e |-> e] : e \in ProviderErrors }

StatusOutcomes ==
  { [kind |-> "ok"] }
  \cup { [kind |-> "err", e |-> e] :
           e \in { x \in ProviderErrors : x.status # Num(404) } }

\* outcomes of a comment request: served or refused
CommentOutcomes == { "ok", "err" }

\* the PR's comments before the first run: one by a user; or, besides it, two
\* tracked comments left by earlier runs, the second by a run whose update failed
InitialComments ==
  { <<[id |-> 1, body |-> <<"LGTM">>]>>,
    <<[id |-> 1, body |-> <<"LGTM">>],
      [id |-> 2, body |-> <<"<!-- ", "ai-validator", " -->", "\n", "report a">>],
      [id |-> 3, body |-> <<"<!-- ", "ai-validator", " -->", "\n", "report b">>]>> }

\* configurations: run() builds both clients (index.ts); a Validator built
\* directly may lack either
Configs ==
  { [harness |-> "run", github |-> TRUE, gemini |-> TRUE,
     skipAuthors |-> sa, identifier |-> id] :
       sa \in SkipAuthorsInputs, id \in Identifiers }
  \cup
  { [harness |-> "validate", github |-> FALSE, gemini |-> gm,
     skipAuthors |-> UNDEF, identifier |-> "ai-validator"] : gm \in BOOLEAN }
  \cup
  { [harness |-> "validate", github |-> TRUE, gemini |-> FALSE,
     skipAuthors |-> sa, identifier |-> "ai-validator"] :
       sa \in {UNDEF, Str(<<"bot">>)} }

\* the guidelines argument validate passes: config.guidelinesFile
GuidelinesFile == <<"CONTRIBUTING.md">>

\* ------------------------------------------------------------- the state
VARIABLES
  comments,   \* the PR's comments at the provider, in listing order
  nextId,     \* the id the provider gives the next comment
  run,        \* number of action runs started
  cfg,        \* the configuration of the current run
  timer,      \* validate's timeout timer: "none", "armed", "fired"
  vstate,     \* the promise validate returned
  ppc,        \* performValidation: "idle", "extract", "model", "status", "done"
  pres,       \* how performValidation settled
  prData,     \* the extracted snapshot
  verdict,    \* performValidation's validationResult
  cs,         \* createCommitStatus: phase, retry attempt, backoff being awaited
  rpc,        \* run(): "validate", "find", "update", "createInner",
              \* "createElse", "createCatch", "exit"
  formatted,  \* run()'s formattedResult
  existing,   \* run()'s existingComment
  out,        \* what run() reported: setFailed message, comment-url output
  log,        \* the calls and events of the current run, in order
  prev,       \* what the previous run published
  call        \* a client method called on its own: arguments and result

vars ==
  <<comments, nextId, run, cfg, timer, vstate, ppc, pres, prData, verdict,
    cs, rpc, formatted, existing, out, log, prev, call>>

NONE == [t |-> "none"]
Pending == [st |-> "pending"]
Resolved(v) == [st |-> "resolved", v |-> v]
Rejected(e) == [st |-> "rejected", e |-> e]
Ok(v) == [ok |-> TRUE, v |-> v]
Err(e) == [ok |-> FALSE, e |-> e]
CsIdle == [phase |-> "idle", attempt |-> 0 - 1, delay |-> 0]
CsDone == [phase |-> "done", attempt |-> 0 - 1, delay |-> 0]
Ev(op) == [op |-> op]

\* the state when the action starts
ProgramInit ==
  /\ comments \in InitialComments
  /\ nextId = Len(comments) + 1
  /\ run = 0
  /\ cfg = NONE
  /\ timer = "none"
  /\ vstate = NONE
  /\ ppc = "idle"
  /\ pres = NONE
  /\ prData = NONE
  /\ verdict = NONE
  /\ cs = CsIdle
  /\ rpc = "exit"
  /\ formatted = NONE
  /\ existing = NONE
  /\ out = [failed |-> UNDEF, commentUrl |-> UNDEF]
  /\ log = <<>>
  /\ prev = [pub |-> FALSE]

Init == ProgramInit /\ call = NONE

\* the footer timestamp of a run
Timestamp(r) == <<ToString(r)>>

\* ---------------------------------------------------------------- run()
\* index.ts after `await validator.validate(...)` settled, up to the next await:
\* on a verdict, format it and ask for the tracked comment; on an error, setFailed
RunContinues(c, r, res, lg) ==
  IF c.harness # "run"
    THEN /\ rpc' = "exit"
         /\ formatted' = NONE
         /\ out' = [failed |-> UNDEF, commentUrl |-> UNDEF]
         /\ log' = lg
  ELSE IF ~res.ok
    THEN /\ rpc' = "exit"
         /\ formatted' = NONE
         /\ out' = [failed |-> Str(<<"Action failed: ">> \o res.e), commentUrl |-> UNDEF]
         /\ log' = Append(lg, Ev("setFailed"))
  ELSE LET f == FormatToMarkdown(res.v, Timestamp(r))
       IN  IF ~f.ok
             THEN /\ rpc' = "exit"
                  /\ formatted' = NONE
                  /\ out' = [failed |-> Str(<<"Action failed: ">> \o f.e),
                             commentUrl |-> UNDEF]
                  /\ log' = lg \o <<Ev("formatToMarkdown"), Ev("setFailed")>>
             ELSE /\ rpc' = "find"
                  /\ formatted' = f.md
                  /\ out' = [failed |-> UNDEF, commentUrl |-> UNDEF]
                  /\ log' = lg \o <<Ev("formatToMarkdown"),
                                    Ev("findCommentByIdentifier")>>

\* a race in which the last promise to settle wins
RaceSettles_LastWins(res, lg) ==
  /\ vstate' = (IF res.ok THEN Resolved(res.v) ELSE Rejected(res.e))
  /\ RunContinues(cfg, run, res,
                  Append(lg, Ev(IF res.ok THEN "validate:resolve" ELSE "validate:reject")))

\* Promise.race in validate: the first of the pipeline and the timer to settle
\* settles validate; a later one changes nothing
RaceSettles(res, lg) ==
  IF vstate = Pending
    THEN /\ vstate' = (IF res.ok THEN Resolved(res.v) ELSE Rejected(res.e))
         /\ RunContinues(cfg, run, res,
                         Append(lg, Ev(IF res.ok THEN "validate:resolve"
                                       ELSE "validate:reject")))
    ELSE /\ log' = lg
         /\ UNCHANGED <<vstate, rpc, formatted, out>>

\* a performValidation that swallows an error and returns the default verdict
PipelineSettles_Swallow(res, lg) ==
  LET r == IF res.ok THEN res ELSE Ok(DefaultVerdict)
  IN  /\ ppc' = "done"
      /\ pres' = r
      /\ RaceSettles(r, Append(lg, Ev("performValidation:settle")))

\* performValidation returns or throws
PipelineSettles(res, lg) ==
  /\ ppc' = "done"
  /\ pres' = res
  /\ RaceSettles(res, Append(lg, Ev("performValidation:settle")))


\* ------------------------------------------------------------ the actions
Quiescent == rpc = "exit" /\ ppc \in {"idle", "done"} /\ timer # "armed"

HasOp(lg, ops) == \E i \in 1..Len(lg) : lg[i].op \in ops

CommentThrows ==
  {"findCommentByIdentifier:throw", "updateComment:throw", "createComment:throw"}

Carriers(list, identifier) ==
  { i \in 1..Len(list) : StrIncludes(list[i].body, IdentifierPattern(identifier)) }

\* what the run that just ended published, if all its comment calls succeeded:
\* the identifier, the comment it wrote, and how many comments carried the
\* marker before it
RunSummary ==
  IF out.commentUrl # UNDEF /\ ~HasOp(log, CommentThrows)
    THEN [pub |-> TRUE, identifier |-> cfg.identifier, wrote |-> out.commentUrl.n,
          before |-> Cardinality(Carriers(comments, cfg.identifier))
                     - (IF HasOp(log, {"createComment:return"}) THEN 1 ELSE 0)]
    ELSE [pub |-> FALSE]

\* a validate that arms no timer when it is called
StartRun_NoTimer(c) ==
  /\ Quiescent
  /\ run < MaxRuns
  /\ run' = run + 1
  /\ prev' = RunSummary
  /\ cfg' = c
  /\ timer' = "none"
  /\ prData' = NONE
  /\ verdict' = NONE
  /\ cs' = CsIdle
  /\ existing' = NONE
  /\ UNCHANGED <<call, comments, nextId>>
  /\ IF c.github
       THEN /\ ppc' = "extract"
            /\ pres' = NONE
            /\ vstate' = Pending
            /\ rpc' = "validate"
            /\ formatted' = NONE
            /\ out' = [failed |-> UNDEF, commentUrl |-> UNDEF]
            /\ log' = <<Ev("validate"), Ev("extractPRData")>>
       ELSE /\ ppc' = "done"
            /\ pres' = Ok(DefaultVerdict)
            /\ vstate' = Resolved(DefaultVerdict)
            /\ RunContinues(c, run + 1, Ok(DefaultVerdict),
                            <<Ev("validate"), Ev("performValidation:settle"),
                              Ev("validate:resolve")>>)

\* run() (or a direct caller) from its start through validate's synchronous
\* part: the timer is armed, performValidation runs to its first await
StartRun(c) ==
  /\ Quiescent
  /\ run < MaxRuns
  /\ run' = run + 1
  /\ prev' = RunSummary
  /\ cfg' = c
  /\ timer' = "armed"
  /\ prData' = NONE
  /\ verdict' = NONE
  /\ cs' = CsIdle
  /\ existing' = NONE
  /\ UNCHANGED <<call, comments, nextId>>
  /\ IF c.github
       THEN /\ ppc' = "extract"
            /\ pres' = NONE
            /\ vstate' = Pending
            /\ rpc' = "validate"
            /\ formatted' = NONE
            /\ out' = [failed |-> UNDEF, commentUrl |-> UNDEF]
            /\ log' = <<Ev("validate"), Ev("extractPRData")>>
       ELSE /\ ppc' = "done"
            /\ pres' = Ok(DefaultVerdict)
            /\ vstate' = Resolved(DefaultVerdict)
            /\ RunContinues(c, run + 1, Ok(DefaultVerdict),
                            <<Ev("validate"), Ev("performValidation:settle"),
                              Ev("validate:resolve")>>)

\* performValidation calls createCommitStatus, whose first request goes out
CallCommitStatus(lg) ==
  /\ ppc' = "status"
  /\ cs' = [phase |-> "first", attempt |-> 0 - 1, delay |-> 0]
  /\ log' = lg \o <<Ev("createCommitStatus"), [op |-> "statusRequest", delay |-> 0]>>
  /\ UNCHANGED <<pres, vstate, rpc, formatted, out>>

\* a performValidation without the bot exclusion
AfterExtract_NoSkip(pr, lg) ==
  IF cfg.gemini
    THEN LET prompt == GenerateValidationPrompt(pr, GuidelinesFile)
             lg2 == lg \o <<Ev("skipCheck"), Ev("generateValidationPrompt"),
                            Ev("validateContent")>>
         IN  IF IsLegacyPrompt(prompt)
               THEN /\ verdict' = LegacyVerdict(prompt)
                    /\ CallCommitStatus(Append(lg2, Ev("validateContent:return")))
               ELSE /\ verdict' = NONE
                    /\ ppc' = "model"
                    /\ log' = Append(lg2, Ev("generateContent"))
                    /\ UNCHANGED <<cs, pres, vstate, rpc, formatted, out>>
  ELSE /\ verdict' = DefaultVerdict
       /\ CallCommitStatus(Append(lg, Ev("skipCheck")))

\* a performValidation that tests the author only after it called the model
AfterExtract_ModelFirst(pr, lg) ==
  IF cfg.gemini
    THEN LET prompt == GenerateValidationPrompt(pr, GuidelinesFile)
             lg2 == lg \o <<Ev("generateValidationPrompt"), Ev("validateContent")>>
         IN  IF ShouldSkip(cfg.skipAuthors, pr.author)
               THEN /\ verdict' = NONE
                    /\ cs' = cs
                    /\ PipelineSettles(Ok(SkipVerdict(pr.author)),
                                       lg2 \o <<Ev("validateContent:return"),
                                                Ev("skipCheck")>>)
             ELSE IF IsLegacyPrompt(prompt)
               THEN /\ verdict' = LegacyVerdict(prompt)
                    /\ CallCommitStatus(lg2 \o <<Ev("validateContent:return"),
                                                  Ev("skipCheck")>>)
               ELSE /\ verdict' = NONE
                    /\ ppc' = "model"
                    /\ log' = Append(lg2, Ev("generateContent"))
                    /\ UNCHANGED <<cs, pres, vstate, rpc, formatted, out>>
  ELSE /\ verdict' = DefaultVerdict
       /\ CallCommitStatus(Append(lg, Ev("skipCheck")))

\* performValidation after extractPRData returned pr: the skip check, then the
\* prompt and the model call, or the fallback without a Gemini client
AfterExtract(pr, lg) ==
  IF ShouldSkip(cfg.skipAuthors, pr.author)
    THEN /\ verdict' = NONE
         /\ cs' = cs
         /\ PipelineSettles(Ok(SkipVerdict(pr.author)), Append(lg, Ev("skipCheck")))
  ELSE IF cfg.gemini
    THEN LET prompt == GenerateValidationPrompt(pr, GuidelinesFile)
             lg2 == lg \o <<Ev("skipCheck"), Ev("generateValidationPrompt"),
                            Ev("validateContent")>>
         IN  IF IsLegacyPrompt(prompt)
               THEN /\ verdict' = LegacyVerdict(prompt)
                    /\ CallCommitStatus(Append(lg2, Ev("validateContent:return")))
               ELSE /\ verdict' = NONE
                    /\ ppc' = "model"
                    /\ log' = Append(lg2, Ev("generateContent"))
                    /\ UNCHANGED <<cs, pres, vstate, rpc, formatted, out>>
  ELSE /\ verdict' = DefaultVerdict
       /\ CallCommitStatus(Append(lg, Ev("skipCheck")))

\* the provider answers extractPRData's three requests
ExtractRespond(o) ==
  /\ ppc = "extract"
  /\ UNCHANGED <<call, comments, nextId, run, cfg, timer, existing, prev>>
  /\ IF o.kind = "ok"
       THEN /\ prData' = o.pr
            /\ AfterExtract(o.pr, Append(log, Ev("extractPRData:return")))
       ELSE /\ prData' = NONE
            /\ UNCHANGED <<verdict, cs>>
            /\ PipelineSettles(Err(ExtractError(o.e)),
                               Append(log, Ev("extractPRData:throw")))

\* the model call settles; validateContent returns its verdict to
\* performValidation, which goes on to the commit status
ModelRespond(o) ==
  LET r == ValidateContent(o)
      \* failed: the call rejected, its response had no usable text, or the
      \* text was no JSON or the JSON null
      lg == Append(log, [op |-> "generateContent:settle",
                         failed |-> (o.kind # "text"
                                       \/ o.json.t \in {"invalid", "null"})])
  IN  /\ ppc = "model"
      /\ UNCHANGED <<call, comments, nextId, run, cfg, timer, prData, existing, prev>>
      /\ IF r.ok
           THEN /\ verdict' = r.v
                /\ CallCommitStatus(Append(lg, Ev("validateContent:return")))
           ELSE /\ verdict' = NONE
                /\ cs' = cs
                /\ PipelineSettles(Err(r.e), Append(lg, Ev("validateContent:throw")))

StatusError(prefix, e) == prefix \o e.message

\* the provider answers a createCommitStatus request; a request refused with
\* a status other than 403 and 429 is logged with that status
StatusRespond(o) ==
  LET lg == IF o.kind = "ok" \/ o.e.status \in {Num(403), Num(429)} THEN log
            ELSE Append(log, [op |-> "statusRequest:refused", status |-> o.e.status])
  IN
  /\ ppc = "status"
  /\ cs.phase \in {"first", "retry"}
  /\ UNCHANGED <<call, comments, nextId, run, cfg, timer, prData, verdict, existing, prev>>
  /\ IF o.kind = "ok"
       THEN /\ cs' = CsDone
            /\ PipelineSettles(Ok(verdict), Append(lg, Ev("createCommitStatus:return")))
     ELSE IF cs.phase = "first"
       THEN IF IsRateLimitError(o.e)
              THEN \* retry attempt 0 goes out at once
                   /\ cs' = [phase |-> "retry", attempt |-> 0, delay |-> 0]
                   /\ log' = Append(lg, [op |-> "statusRequest",
                                         delay |-> BackoffDelay(0)])
                   /\ UNCHANGED <<ppc, pres, vstate, rpc, formatted, out>>
              ELSE /\ cs' = CsDone
                   /\ PipelineSettles(
                        Err(StatusError(<<"Failed to create commit status: ">>, o.e)),
                        Append(lg, Ev("createCommitStatus:throw")))
     ELSE IF cs.attempt = RetryAttempts - 1 \/ ~IsRateLimitError(o.e)
       THEN /\ cs' = CsDone
            /\ PipelineSettles(
                 Err(StatusError(<<"Failed to create commit status after ",
                                   ToString(cs.attempt + 1), " attempts: ">>, o.e)),
                 Append(lg, Ev("createCommitStatus:throw")))
       ELSE /\ cs' = [phase |-> "sleep", attempt |-> cs.attempt + 1,
                      delay |-> BackoffDelay(cs.attempt + 1)]
            /\ log' = lg
            /\ UNCHANGED <<ppc, pres, vstate, rpc, formatted, out>>

\* the backoff timer of createCommitStatus fires after cs.delay seconds: the
\* next request goes out
BackoffFire ==
  /\ ppc = "status"
  /\ cs.phase = "sleep"
  /\ cs' = [phase |-> "retry", attempt |-> cs.attempt, delay |-> 0]
  /\ log' = Append(log, [op |-> "statusRequest", delay |-> cs.delay])
  /\ UNCHANGED <<call, comments, nextId, run, cfg, timer, vstate, ppc, pres, prData,
                 verdict, rpc, formatted, existing, out, prev>>

\* a timer callback that rejects nothing
TimerFire_Lost ==
  /\ timer = "armed"
  /\ timer' = "fired"
  /\ UNCHANGED <<call, comments, nextId, run, cfg, vstate, ppc, pres, prData,
                 verdict, cs, rpc, formatted, existing, out, log, prev>>

\* validate's timer fires, TimeoutSec seconds after validate was called, and
\* rejects timeoutPromise
TimerFire ==
  /\ timer = "armed"
  /\ timer' = "fired"
  /\ RaceSettles(Err(TimeoutError),
                 IF vstate = Pending
                   THEN Append(log, [op |-> "timer", after |-> TimeoutSec])
                   ELSE log)
  /\ UNCHANGED <<call, comments, nextId, run, cfg, ppc, pres, prData, verdict, cs,
                 existing, prev>>

\* run() calls createComment from the branch `at` with its rendered body
CallCreate(at, lg) ==
  /\ rpc' = at
  /\ log' = Append(lg, [op |-> "createComment", body |-> formatted,
                        identifier |-> cfg.identifier])

\* run() once commentResult is known: the comment-url output and the status log
Finish(id, lg) ==
  LET v == vstate.v
      joinThrows == Field(v, "status") # Str(<<"PASS">>) /\ Field(v, "issues").t # "array"
  IN  /\ rpc' = "exit"
      /\ out' = [failed |-> IF joinThrows THEN Str(<<"Action failed: ">> \o TypeErrorText)
                            ELSE UNDEF,
                 commentUrl |-> Num(id)]
      /\ log' = lg \o <<[op |-> "setOutput", name |-> "comment-url", id |-> id]>>
                   \o (IF joinThrows THEN <<Ev("setFailed")>> ELSE <<>>)

\* the provider answers findCommentByIdentifier's listing
FindRespond(o) ==
  /\ rpc = "find"
  /\ UNCHANGED <<call, comments, nextId, run, cfg, timer, vstate, ppc, pres, prData,
                 verdict, cs, formatted, out, prev>>
  /\ IF o = "ok"
       THEN LET found == FindFirst(comments, cfg.identifier)
            IN  /\ existing' = found
                /\ IF found # JNull
                     THEN /\ rpc' = "update"
                          /\ log' = log \o <<[op |-> "found", id |-> found.id],
                                             [op |-> "updateComment", id |-> found.id,
                                              body |-> formatted,
                                              identifier |-> cfg.identifier]>>
                     ELSE CallCreate("createElse", Append(log, Ev("notFound")))
       ELSE /\ existing' = NONE
            /\ CallCreate("createCatch",
                          log \o <<Ev("findCommentByIdentifier:throw"),
                                   [op |-> "warning", what |-> "find"]>>)

SetBody(list, id, body) ==
  [i \in 1..Len(list) |-> IF list[i].id = id THEN [list[i] EXCEPT !.body = body]
                          ELSE list[i]]

\* a run() without the inner catch: a failed update fails the run
UpdateRespond_Propagate(o) ==
  /\ rpc = "update"
  /\ UNCHANGED <<call, nextId, run, cfg, timer, vstate, ppc, pres, prData, verdict, cs,
                 formatted, existing, prev, comments>>
  /\ IF o = "ok"
       THEN Finish(existing.id, Append(log, Ev("updateComment:return")))
       ELSE /\ rpc' = "exit"
            /\ out' = [out EXCEPT !.failed =
                         Str(<<"Action failed: ", "Failed to update comment: ">>)]
            /\ log' = log \o <<Ev("updateComment:throw"), Ev("setFailed")>>

\* the provider answers updateComment
UpdateRespond(o) ==
  /\ rpc = "update"
  /\ UNCHANGED <<call, nextId, run, cfg, timer, vstate, ppc, pres, prData, verdict, cs,
                 formatted, existing, prev>>
  /\ IF o = "ok"
       THEN /\ comments' = SetBody(comments, existing.id,
                                   CommentBody(cfg.identifier, formatted))
            /\ Finish(existing.id, Append(log, Ev("updateComment:return")))
       ELSE /\ comments' = comments
            /\ out' = out
            /\ CallCreate("createInner",
                          log \o <<Ev("updateComment:throw"),
                                   [op |-> "warning", what |-> "update"]>>)

\* the provider answers createComment
CreateRespond(o) ==
  /\ rpc \in {"createInner", "createElse", "createCatch"}
  /\ UNCHANGED <<call, run, cfg, timer, vstate, ppc, pres, prData, verdict, cs,
                 formatted, existing, prev>>
  /\ IF o = "ok"
       THEN /\ comments' = Append(comments,
                                  [id |-> nextId,
                                   body |-> CommentBody(cfg.identifier, formatted)])
            /\ nextId' = nextId + 1
            /\ Finish(nextId, Append(log, [op |-> "createComment:return", id |-> nextId]))
     ELSE IF rpc = "createCatch"
       THEN /\ UNCHANGED <<comments, nextId>>
            /\ rpc' = "exit"
            /\ out' = [out EXCEPT !.failed =
                         Str(<<"Action failed: ", "Failed to create comment: ">>)]
            /\ log' = log \o <<Ev("createComment:throw"), Ev("setFailed")>>
     ELSE /\ UNCHANGED <<comments, nextId, out>>
          /\ CallCreate("createCatch",
                        log \o <<Ev("createComment:throw"),
                                 [op |-> "warning", what |-> "create"]>>)

Next ==
  \/ \E c \in Configs : StartRun(c)
  \/ \E o \in ExtractOutcomes : ExtractRespond(o)
  \/ \E o \in ModelOutcomes : ModelRespond(o)
  \/ \E o \in StatusOutcomes : StatusRespond(o)
  \/ BackoffFire
  \/ TimerFire
  \/ \E o \in CommentOutcomes : FindRespond(o)
  \/ \E o \in CommentOutcomes : UpdateRespond(o)
  \/ \E o \in CommentOutcomes : CreateRespond(o)

Spec == Init /\ [][Next]_vars

\* ------------------------------------------- Validator.validate on its own
\* a Validator built directly, with or without either client
ValidateConfigs ==
  { [harness |-> "validate", github |-> gh, gemini |-> gm,
     skipAuthors |-> sa, identifier |-> "ai-validator"] :
       gh \in BOOLEAN, gm \in BOOLEAN, sa \in {UNDEF, Str(<<"dev", ",", " ", "bot">>)} }

NextValidate ==
  \/ \E c \in ValidateConfigs : StartRun(c)
  \/ \E o \in ExtractOutcomes : ExtractRespond(o)
  \/ \E o \in ModelOutcomes : ModelRespond(o)
  \/ \E o \in StatusOutcomes : StatusRespond(o)
  \/ BackoffFire
  \/ TimerFire

\* the event loop runs a timer callback that is due; no provider or model call
\* has to answer
ValidateSpec == Init /\ [][NextValidate]_vars /\ WF_vars(TimerFire)

\* ------------------------------------------------ run() publishing a verdict
\* run() with either comment identifier
PublishConfigs ==
  { [harness |-> "run", github |-> TRUE, gemini |-> TRUE,
     skipAuthors |-> Str(<<>>), identifier |-> id] : id \in Identifiers }

PublishExtractOutcomes ==
  { o \in ExtractOutcomes :
      \/ o.kind = "ok" /\ o.pr.author = Str(<<"alice">>)
      \/ o.kind = "err" /\ o.e.status = Num(500) }

\* verdicts of the model: a pass, one whose issues is no list, and one whose
\* issue text quotes the marker of the other validator
PublishModelOutcomes ==
  { [kind |-> "reject"],
    [kind |-> "text", usage |-> UNDEF,
     json |-> Obj([status |-> Str(<<"PASS">>), issues |-> Arr(<<>>),
                   improved_title |-> Str(<<>>), improved_commits |-> Str(<<>>),
                   improved_description |-> Str(<<>>)])],
    [kind |-> "text", usage |-> UNDEF,
     json |-> Obj([status |-> Str(<<"FAIL">>), issues |-> Str(<<>>),
                   improved_title |-> Str(<<>>), improved_commits |-> Str(<<>>),
                   improved_description |-> Str(<<>>)])],
    [kind |-> "text", usage |-> UNDEF,
     json |-> Obj([status |-> Str(<<"WARNINGS">>),
                   issues |-> Arr(<<Str(<<"<!-- ", "other-validator", " -->">>)>>),
                   improved_title |-> Str(<<>>), improved_commits |-> Str(<<>>),
                   improved_description |-> Str(<<>>)])] }

PublishStatusOutcomes ==
  { o \in StatusOutcomes : o.kind = "ok" \/ o.e.status = Num(429) }

NextPublish ==
  \/ \E c \in PublishConfigs : StartRun(c)
  \/ \E o \in PublishExtractOutcomes : ExtractRespond(o)
  \/ \E o \in PublishModelOutcomes : ModelRespond(o)
  \/ \E o \in PublishStatusOutcomes : StatusRespond(o)
  \/ BackoffFire
  \/ TimerFire
  \/ \E o \in CommentOutcomes : FindRespond(o)
  \/ \E o \in CommentOutcomes : UpdateRespond(o)
  \/ \E o \in CommentOutcomes : CreateRespond(o)

PublishSpec == Init /\ [][NextPublish]_vars

\* ------------------------------------- GeminiClient.validateContent on its own
\* values JSON.parse may return for the model's text
VcJsonInputs ==
  JsonInputs
  \cup { Num(42), Str(<<"PASS">>), Arr(<<>>), Obj(<<>>),
         Obj([status |-> Str(<<"PASS">>)]),
         Obj([status |-> Str(<<"MAYBE">>), issues |-> Arr(<<Str(<<"x">>)>>),
              improved_title |-> Str(<<"t">>), improved_commits |-> Str(<<>>),
              improved_description |-> Str(<<>>)]),
         Obj([status |-> Str(<<"WARNINGS">>), issues |-> Arr(<<Num(1)>>),
              improved_title |-> Num(5), improved_commits |-> Str(<<"c">>),
              improved_description |-> Str(<<"d">>)]),
         Obj([issues |-> Arr(<<Str(<<"no scope">>), Str(<<"no body">>)>>),
              improved_description |-> JNull]),
         Obj([status |-> Str(<<"PASS">>), issues |-> Arr(<<Str(<<"no scope">>)>>),
              improved_title |-> Str(<<>>), improved_commits |-> Str(<<>>),
              improved_description |-> Str(<<>>)]) }

VcOutcomes ==
  { [kind |-> "reject"], [kind |-> "notext"] }
  \cup { [kind |-> "text", json |-> j, usage |-> u] :
           j \in VcJsonInputs, u \in UsageInputs }

\* the prompts generateValidationPrompt builds for the PR snapshots
VcPrompts == { GenerateValidationPrompt(pr, GuidelinesFile) : pr \in PRInputs }

\* validateContent(prompt) when generateContent, if called, settles with o
ValidateContentCall(prompt, o) ==
  IF IsLegacyPrompt(prompt) THEN [ok |-> TRUE, v |-> LegacyVerdict(prompt)]
  ELSE ValidateContent(o)

VcInit ==
  /\ ProgramInit
  /\ call \in { [st |-> "called", prompt |-> p, outcome |-> o] :
                  p \in VcPrompts, o \in VcOutcomes }

\* the call settles
VcSettle ==
  /\ call.st = "called"
  /\ call' = [st |-> "settled", prompt |-> call.prompt, outcome |-> call.outcome,
              result |-> ValidateContentCall(call.prompt, call.outcome)]
  /\ UNCHANGED <<comments, nextId, run, cfg, timer, vstate, ppc, pres, prData,
                 verdict, cs, rpc, formatted, existing, out, log, prev>>

VcNext == VcSettle

VcSpec == VcInit /\ [][VcNext]_vars

\* ---------------------------------------- GitHubClient.extractPRData on its own
\* numbers that are no integers
Frac(n, d) == [t |-> "number", n |-> n, d |-> d]
NaN == [t |-> "number", nan |-> TRUE]

IsNaN(x) == x.t = "number" /\ "nan" \in DOMAIN x

\* Number.isInteger
IsInteger(x) == x.t = "number" /\ DOMAIN x = {"t", "n"}

\* !prNumber || prNumber <= 0 || !Number.isInteger(prNumber)
InvalidPRNumber(x) ==
  \/ x.t \in {"undefined", "null"}
  \/ IsNaN(x)
  \/ x.t = "number" /\ ~IsNaN(x) /\ x.n <= 0
  \/ ~IsInteger(x)

\* the argument checks of extractPRData: the error thrown, or NONE
ArgumentError(owner, repo, prNumber) ==
  IF owner = <<>> \/ Trim(owner) = <<>>
    THEN Str(<<"Invalid repository owner: owner cannot be empty">>)
  ELSE IF repo = <<>> \/ Trim(repo) = <<>>
    THEN Str(<<"Invalid repository name: repo cannot be empty">>)
  ELSE IF InvalidPRNumber(prNumber)
    THEN Str(<<"Invalid PR number: must be a positive integer">>)
  ELSE NONE

\* commitsResponse.data.map(...)
MapCommit(c) ==
  [sha |-> c.sha,
   message |-> c.commit.message,
   author |->
     [name |-> IF c.commit.author = JNull THEN <<>> ELSE c.commit.author.name,
      email |-> IF c.commit.author = JNull THEN <<>> ELSE c.commit.author.email,
      date |-> IF c.commit.author = JNull THEN <<>> ELSE c.commit.author.date]]

\* filesResponse.data.map(...): the patch is copied when it is truthy
MapFile(f) ==
  IF "patch" \in DOMAIN f /\ f.patch # <<>>
    THEN [filename |-> f.filename, status |-> f.status, additions |-> f.additions,
          deletions |-> f.deletions, changes |-> f.changes, patch |-> f.patch]
    ELSE [filename |-> f.filename, status |-> f.status, additions |-> f.additions,
          deletions |-> f.deletions, changes |-> f.changes]

\* files.reduce((sum, file) => sum + file[field], 0)
RECURSIVE SumField(_, _)
SumField(files, field) ==
  IF files = <<>> THEN 0
  ELSE SumField(SubSeq(files, 1, Len(files) - 1), field) + files[Len(files)][field]

\* diff statistics that count the changed lines of the last file only
DiffStats_LastFile(files) ==
  [totalAdditions |-> IF files = <<>> THEN 0 ELSE files[Len(files)].additions,
   totalDeletions |-> IF files = <<>> THEN 0 ELSE files[Len(files)].deletions,
   totalChanges |-> IF files = <<>> THEN 0 ELSE files[Len(files)].changes,
   filesChanged |-> Len(files)]

DiffStats(files) ==
  [totalAdditions |-> SumField(files, "additions"),
   totalDeletions |-> SumField(files, "deletions"),
   totalChanges |-> SumField(files, "changes"),
   filesChanged |-> Len(files)]

\* the snapshot built from the three responses
Snapshot(get, commits, files) ==
  LET mapped == [i \in 1..Len(files) |-> MapFile(files[i])]
  IN  [number |-> get.number,
       title |-> get.title,
       body |-> IF get.body = JNull THEN <<>> ELSE get.body.s,
       commits |-> [i \in 1..Len(commits) |-> MapCommit(commits[i])],
       files |-> mapped,
       diffStats |-> DiffStats(mapped),
       author |-> IF get.user = JNull THEN UNDEF ELSE Str(get.user.login)]

\* an extractPRData that asks the provider before it checks its arguments
ExtractPRData_NoArgCheck(owner, repo, prNumber, r) ==
  IF \E c \in {"get", "commits", "files"} : r[c].kind = "err"
    THEN [ok |-> FALSE, e |-> ExtractError(r[r.first].e), requests |-> 3]
  ELSE [ok |-> TRUE, requests |-> 3,
        v |-> Snapshot(r.get.data, r.commits.data, r.files.data)]

\* extractPRData(owner, repo, prNumber) when the provider answers the three
\* requests with r; of several rejections Promise.all takes the first
ExtractPRData(owner, repo, prNumber, r) ==
  IF ArgumentError(owner, repo, prNumber) # NONE
    THEN [ok |-> FALSE, e |-> ArgumentError(owner, repo, prNumber).s, requests |-> 0]
  ELSE IF \E c \in {"get", "commits", "files"} : r[c].kind = "err"
    THEN [ok |-> FALSE, e |-> ExtractError(r[r.first].e), requests |-> 3]
  ELSE [ok |-> TRUE, requests |-> 3,
        v |-> Snapshot(r.get.data, r.commits.data, r.files.data)]

OwnerInputs == { <<>>, <<" ", "\t">>, <<"octo">> }
RepoInputs == { <<>>, <<"\n">>, <<"repo">> }
PRNumberInputs == { Num(7), Num(0), Num(0 - 1), Frac(3, 2), NaN }

\* what pulls.get may return
GetInputs ==
  { [number |-> 7, title |-> <<"feat: x">>, body |-> Str(<<"What and why">>),
     user |-> [login |-> <<"alice">>]],
    [number |-> 8, title |-> <<"feat: x">>, body |-> JNull, user |-> JNull],
    [number |-> 9, title |-> <<"feat: x">>, body |-> Str(<<"What and why">>),
     user |-> [login |-> <<"bob">>]] }

Author1 == [name |-> <<"Dev">>, email |-> <<"dev@x.org">>, date |-> <<"2024">>]

\* what pulls.listCommits may return
CommitsInputs ==
  { <<>>,
    <<[sha |-> <<"a1">>, commit |-> [message |-> <<"fix stuff">>, author |-> Author1]],
      [sha |-> <<"b2">>, commit |-> [message |-> <<"wip">>, author |-> JNull]]>>,
    <<[sha |-> <<"c3">>,
       commit |-> [message |-> <<"fix stuff">>,
                   author |-> [name |-> <<"Dev">>, email |-> <<"d@y.org">>,
                               date |-> <<"2025">>]]],
      [sha |-> <<"d4">>,
       commit |-> [message |-> <<"wip">>,
                   author |-> [name |-> <<>>, email |-> <<"e@y.org">>,
                               date |-> <<"2025">>]]]>> }

\* what pulls.listFiles may return
FilesInputs ==
  { <<>>,
    <<[filename |-> <<"a.ts">>, status |-> <<"modified">>, additions |-> 3,
       deletions |-> 1, changes |-> 4, patch |-> <<"@@">>]>>,
    <<[filename |-> <<"a.ts">>, status |-> <<"modified">>, additions |-> 3,
       deletions |-> 1, changes |-> 4, patch |-> <<"@@">>],
      [filename |-> <<"b.bin">>, status |-> <<"added">>, additions |-> 0,
       deletions |-> 0, changes |-> 0],
      [filename |-> <<"c.ts">>, status |-> <<"removed">>, additions |-> 0,
       deletions |-> 20, changes |-> 20, patch |-> <<>>]>> }

\* errors of the three requests: those of ProviderErrors and 404s that carry
\* the provider's own message in response.data.message
FetchErrors ==
  ProviderErrors
  \cup { [status |-> Num(404), message |-> <<"Not Found">>,
          responseMessage |-> <<"Issue not found">>],
         [status |-> Num(404), message |-> <<"No ", "pull request", " here">>,
          responseMessage |-> <<"Not Found">>],
         [status |-> Num(404), message |-> <<"No ", "pull request", " here">>] }

\* answers to the three requests: all served; one refused; the PR request and
\* another one refused, either first
FetchInputs ==
  { [get |-> [kind |-> "ok", data |-> g], commits |-> [kind |-> "ok", data |-> c],
     files |-> [kind |-> "ok", data |-> f], first |-> "get"] :
       g \in GetInputs, c \in CommitsInputs, f \in FilesInputs }
  \cup
  { [get |-> IF w = "get" THEN [kind |-> "err", e |-> e]
             ELSE [kind |-> "ok", data |-> CHOOSE g \in GetInputs : g.number = 7],
     commits |-> IF w = "commits" THEN [kind |-> "err", e |-> e]
                 ELSE [kind |-> "ok", data |-> <<>>],
     files |-> IF w = "files" THEN [kind |-> "err", e |-> e]
               ELSE [kind |-> "ok", data |-> <<>>],
     first |-> w] : w \in {"get", "commits", "files"}, e \in FetchErrors }
  \cup
  { [get |-> [kind |-> "err",
              e |-> [status |-> Num(403), message |-> <<"Rate limit exceeded">>]],
     commits |-> [kind |-> "err",
                  e |-> [status |-> Num(500), message |-> <<"Server Error">>]],
     files |-> [kind |-> "ok", data |-> <<>>],
     first |-> w] : w \in {"get", "commits"} }

ExtractInit ==
  /\ ProgramInit
  /\ call \in { [st |-> "called", owner |-> o, repo |-> r, prNumber |-> n,
                 fetch |-> f] :
                  o \in OwnerInputs, r \in RepoInputs, n \in PRNumberInputs,
                  f \in FetchInputs }

\* the call settles
ExtractSettle ==
  /\ call.st = "called"
  /\ call' = [st |-> "settled", owner |-> call.owner, repo |-> call.repo,
              prNumber |-> call.prNumber, fetch |-> call.fetch,
              result |-> ExtractPRData(call.owner, call.repo, call.prNumber,
                                       call.fetch)]
  /\ UNCHANGED <<comments, nextId, run, cfg, timer, vstate, ppc, pres, prData,
                 verdict, cs, rpc, formatted, existing, out, log, prev>>

ExtractNext == ExtractSettle

ExtractSpec == ExtractInit /\ [][ExtractNext]_vars

\* ------------------------- GeminiClient.generateValidationPrompt on its own
\* snapshots extractPRData returns
SnapshotInputs ==
  { Snapshot(g, c, f) : g \in GetInputs, c \in CommitsInputs, f \in FilesInputs }

GuidelinesInputs == { GuidelinesFile, <<"Use conventional commits">> }

\* two calls of generateValidationPrompt with the same guidelines
PromptInit ==
  /\ ProgramInit
  /\ call \in { [st |-> "called", a |-> a, b |-> b, guidelines |-> g] :
                  a \in SnapshotInputs, b \in SnapshotInputs,
                  g \in GuidelinesInputs }

\* both calls return
PromptSettle ==
  /\ call.st = "called"
  /\ call' = [st |-> "settled", a |-> call.a, b |-> call.b,
              guidelines |-> call.guidelines,
              promptA |-> GenerateValidationPrompt(call.a, call.guidelines),
              promptB |-> GenerateValidationPrompt(call.b, call.guidelines)]
  /\ UNCHANGED <<comments, nextId, run, cfg, timer, vstate, ppc, pres, prData,
                 verdict, cs, rpc, formatted, existing, out, log, prev>>

PromptNext == PromptSettle

PromptSpec == PromptInit /\ [][PromptNext]_vars

\* --------------------------------------------- the constructors on their own
\* tokens are sequences of characters
Rep(c, n) == [i \in 1..n |-> c]

StartsWith(s, p) == Len(s) >= Len(p) /\ SubSeq(s, 1, Len(p)) = p

\* [a-zA-Z0-9_]
WordChars ==
  { "a", "b", "c", "d", "e", "f", "g", "h", "i", "j", "k", "l", "m", "n", "o",
    "p", "q", "r", "s", "t", "u", "v", "w", "x", "y", "z",
    "A", "B", "C", "D", "E", "F", "G", "H", "I", "J", "K", "L", "M", "N", "O",
    "P", "Q", "R", "S", "T", "U", "V", "W", "X", "Y", "Z",
    "0", "1", "2", "3", "4", "5", "6", "7", "8", "9", "_" }

Ghp == <<"g", "h", "p", "_">>
Ghs == <<"g", "h", "s", "_">>
GithubPat == <<"g", "i", "t", "h", "u", "b", "_", "p", "a", "t", "_">>

\* ghp_, gho_, ghu_, ghs_, ghr_, github_pat_
ClientPrefixes ==
  { Ghp, <<"g", "h", "o", "_">>, <<"g", "h", "u", "_">>, Ghs,
    <<"g", "h", "r", "_">>, GithubPat }

ValidatorPrefixes == { Ghp, GithubPat }

\* /^(prefix)[a-zA-Z0-9_]{min,max}$/.test(token)
MatchesToken(token, prefixes, min, max) ==
  \E p \in prefixes :
    /\ StartsWith(token, p)
    /\ Len(token) - Len(p) >= min
    /\ Len(token) - Len(p) <= max
    /\ \A i \in (Len(p) + 1)..Len(token) : token[i] \in WordChars

\* new GitHubClient(token)
GitHubClientCtor(token) ==
  IF token = <<>> THEN [ok |-> FALSE, e |-> <<"GitHub token is required">>]
  ELSE IF ~MatchesToken(token, ClientPrefixes, 1, Len(token))
    THEN [ok |-> FALSE, e |-> <<"Invalid GitHub token format">>]
  ELSE [ok |-> TRUE]

\* new Validator(config, ...)
ValidatorCtor(config) ==
  IF config.githubToken = <<>> \/ config.geminiApiKey = <<>>
     \/ config.guidelinesFile = <<>>
    THEN [ok |-> FALSE, e |-> <<"Invalid configuration">>]
  ELSE IF ~MatchesToken(config.githubToken, ValidatorPrefixes, 40, 255)
    THEN [ok |-> FALSE, e |-> <<"Invalid GitHub token format">>]
  ELSE [ok |-> TRUE]

TokenInputs ==
  { <<>>,
    <<"i", "n", "v", "a", "l", "i", "d", "-", "t", "o", "k", "e", "n">>,
    Ghp \o <<"v", "a", "l", "i", "d", "_", "t", "o", "k", "e", "n", "_", "1", "2", "3">>,
    Ghs \o <<"a", "c", "t", "i", "o", "n", "_", "t", "o", "k", "e", "n">>,
    Ghp,
    Ghp \o Rep("a", 39),
    Ghp \o Rep("a", 40),
    Ghp \o Rep("a", 39) \o <<"-">>,
    Ghp \o Rep("a", 255),
    Ghp \o Rep("a", 256),
    Ghs \o Rep("Z", 40),
    GithubPat \o Rep("0", 82) }

ConfigInputs ==
  { [githubToken |-> t, geminiApiKey |-> k, guidelinesFile |-> f] :
      t \in TokenInputs, k \in { <<>>, <<"k", "e", "y">> },
      f \in { <<>>, <<"CONTRIBUTING.md">> } }

CtorInit ==
  /\ ProgramInit
  /\ call \in { [st |-> "called", config |-> c] : c \in ConfigInputs }

\* both constructors return or throw
CtorSettle ==
  /\ call.st = "called"
  /\ call' = [st |-> "settled", config |-> call.config,
              client |-> GitHubClientCtor(call.config.githubToken),
              validator |-> ValidatorCtor(call.config)]
  /\ UNCHANGED <<comments, nextId, run, cfg, timer, vstate, ppc, pres, prData,
                 verdict, cs, rpc, formatted, existing, out, log, prev>>

CtorNext == CtorSettle

CtorSpec == CtorInit /\ [][CtorNext]_vars

\* --------------------------------------- ResultFormatter.formatToMarkdown on its own
\* strings here are sequences of characters, so that Len is String.length
FormatIssuesInputs ==
  { <<>>,
    <<Str(<<"a">>)>>,
    <<Str(Rep("x", TruncLimit - 1))>>,
    <<Str(Rep("x", TruncLimit))>>,
    <<Str(Rep("x", TruncLimit + 1))>>,
    <<Str(Rep("x", TruncLimit + 1)), Str(<<"a">>)>> }

FormatTitleInputs ==
  { <<>>, <<" ">>, <<"t">>, Rep("y", TruncLimit), Rep("y", TruncLimit + 1) }

FormatCommitsInputs == { <<>>, Rep("z", TruncLimit + 1) }

FormatDescriptionInputs == { <<>>, <<"d">> }

FormatInputs ==
  { [status |-> Str(<<st>>), issues |-> Arr(is), improved_title |-> Str(t),
     improved_commits |-> Str(c), improved_description |-> Str(d)] :
      st \in {"PASS", "WARNINGS", "FAIL"}, is \in FormatIssuesInputs,
      t \in FormatTitleInputs, c \in FormatCommitsInputs,
      d \in FormatDescriptionInputs }

FormatInit ==
  /\ ProgramInit
  /\ call \in { [st |-> "called", validationResult |-> v] : v \in FormatInputs }

\* formatToMarkdown returns
FormatSettle ==
  /\ call.st = "called"
  /\ call' = [st |-> "settled", validationResult |-> call.validationResult,
              markdown |-> FormatToMarkdown(call.validationResult, Timestamp(1))]
  /\ UNCHANGED <<comments, nextId, run, cfg, timer, vstate, ppc, pres, prData,
                 verdict, cs, rpc, formatted, existing, out, log, prev>>

FormatNext == FormatSettle

FormatSpec == FormatInit /\ [][FormatNext]_vars

\* --------------------------- performValidation with both clients, on more inputs
\* skip-authors inputs: unset, "", "dev, bot", " bot " and "dev,,Bot"
PipelineSkipAuthors ==
  { UNDEF, Str(<<>>), Str(<<"dev", ",", " ", "bot">>), Str(<<" ", "bot", " ">>),
    Str(<<"dev", ",", ",", "Bot">>) }

PipelineConfigs ==
  { [harness |-> "validate", github |-> TRUE, gemini |-> TRUE,
     skipAuthors |-> sa, identifier |-> "ai-validator"] : sa \in PipelineSkipAuthors }

\* authors: "bot", "Bot", " bot", "bot2", "dev, bot", "" and none
PipelineAuthors ==
  { Str(<<"bot">>), Str(<<"Bot">>), Str(<<" ", "bot">>), Str(<<"bot", "2">>),
    Str(<<"dev", ",", " ", "bot">>), Str(<<>>), UNDEF }

\* snapshots of these authors, and snapshots by alice whose title, description
\* or commit message holds the legacy phrase
PipelinePRInputs ==
  { [author |-> a, title |-> <<"feat: x">>, body |-> <<>>, commits |-> <<Commit1>>] :
      a \in PipelineAuthors }
  \cup
  { [author |-> Str(<<"alice">>), title |-> <<"fix: ", LegacyPhrase>>, body |-> <<>>,
     commits |-> <<Commit1>>],
    [author |-> Str(<<"alice">>), title |-> <<"feat: x">>,
     body |-> <<"CI said: ", LegacyPhrase, ".">>, commits |-> <<Commit1>>],
    [author |-> Str(<<"alice">>), title |-> <<"feat: x">>, body |-> <<"d">>,
     commits |-> <<Commit1,
                   [message |-> <<"Revert ", LegacyPhrase>>,
                    author |-> [name |-> <<"Dev">>]]>>] }

PipelineExtractOutcomes == { [kind |-> "ok", pr |-> p] : p \in PipelinePRInputs }

PipelineModelOutcomes ==
  { o \in ModelOutcomes : o.kind = "reject" \/ (o.kind = "text" /\ o.usage # UNDEF) }

PipelineStatusOutcomes == { o \in StatusOutcomes : o.kind = "ok" }

NextPipeline ==
  \/ \E c \in PipelineConfigs : StartRun(c)
  \/ \E o \in PipelineExtractOutcomes : ExtractRespond(o)
  \/ \E o \in PipelineModelOutcomes : ModelRespond(o)
  \/ \E o \in PipelineStatusOutcomes : StatusRespond(o)
  \/ TimerFire

PipelineSpec == Init /\ [][NextPipeline]_vars

\* ------------------------------- two action runs publishing at the same time
\* the two runs, each at the comment management of run()
Publishers == {1, 2}

\* the rendered comment of each run
FormattedOf(p) == <<"report of run ", ToString(p)>>

\* call holds each run's position (pc), its identifier, its rendered comment,
\* what findCommentByIdentifier returned to it, whether a call of it threw and
\* the comment it published; before: the comments that carried the marker of
\* the first run when the runs began
ConcurrentInit ==
  /\ ProgramInit
  /\ \E id1 \in Identifiers, id2 \in Identifiers :
       call = [pub |-> [p \in Publishers |->
                          [pc |-> "find",
                           identifier |-> IF p = 1 THEN id1 ELSE id2,
                           formatted |-> FormattedOf(p),
                           existing |-> NONE,
                           threw |-> FALSE,
                           commentResult |-> NONE]],
               before |-> Cardinality(Carriers(comments, id1))]

ConcurrentUnchanged ==
  UNCHANGED <<run, cfg, timer, vstate, ppc, pres, prData, verdict, cs, rpc,
              formatted, existing, out, log, prev>>

\* the provider answers the listing of run p's findCommentByIdentifier
PubFindRespond(p, o) ==
  LET me == call.pub[p]
      found == FindFirst(comments, me.identifier)
  IN  /\ me.pc = "find"
      /\ UNCHANGED <<comments, nextId>>
      /\ ConcurrentUnchanged
      /\ call' = [call EXCEPT !.pub[p] =
                    IF o = "ok"
                      THEN [me EXCEPT !.existing = found,
                                      !.pc = IF found # JNull THEN "update"
                                             ELSE "createElse"]
                    ELSE [me EXCEPT !.threw = TRUE, !.pc = "createCatch"]]

\* the provider answers run p's updateComment
PubUpdateRespond(p, o) ==
  LET me == call.pub[p]
  IN  /\ me.pc = "update"
      /\ nextId' = nextId
      /\ ConcurrentUnchanged
      /\ IF o = "ok"
           THEN /\ comments' = SetBody(comments, me.existing.id,
                                       CommentBody(me.identifier, me.formatted))
                /\ call' = [call EXCEPT !.pub[p] =
                              [me EXCEPT !.pc = "exit",
                                         !.commentResult = me.existing.id]]
           ELSE /\ comments' = comments
                /\ call' = [call EXCEPT !.pub[p] =
                              [me EXCEPT !.threw = TRUE, !.pc = "createInner"]]

\* the provider answers run p's createComment
PubCreateRespond(p, o) ==
  LET me == call.pub[p]
  IN  /\ me.pc \in {"createInner", "createElse", "createCatch"}
      /\ ConcurrentUnchanged
      /\ IF o = "ok"
           THEN /\ comments' = Append(comments,
                                      [id |-> nextId,
                                       body |-> CommentBody(me.identifier,
                                                            me.formatted)])
                /\ nextId' = nextId + 1
                /\ call' = [call EXCEPT !.pub[p] =
                              [me EXCEPT !.pc = "exit", !.commentResult = nextId]]
           ELSE /\ UNCHANGED <<comments, nextId>>
                /\ call' = [call EXCEPT !.pub[p] =
                              [me EXCEPT !.threw = TRUE,
                                         !.pc = IF me.pc = "createCatch" THEN "exit"
                                                ELSE "createCatch"]]

NextConcurrent ==
  \/ \E p \in Publishers, o \in CommentOutcomes : PubFindRespond(p, o)
  \/ \E p \in Publishers, o \in CommentOutcomes : PubUpdateRespond(p, o)
  \/ \E p \in Publishers, o \in CommentOutcomes : PubCreateRespond(p, o)

ConcurrentSpec == ConcurrentInit /\ [][NextConcurrent]_vars

\* ------------------------------------------------------------- the claims
\* positions of the log entries named o
Ops(o) == { i \in 1..Len(log) : log[i].op = o }

\* every entry named in `later` has an entry named in `earlier` before it
Precedes(earlier, later) ==
  \A j \in 1..Len(log) :
    log[j].op \in later => \E i \in 1..(j - 1) : log[i].op \in earlier

FlaggedSkipped(v) == "skipped" \in DOMAIN v /\ v.skipped = TRUE

\* the configured skipAuthors list contains the fetched snapshot's author
AuthorListed ==
  /\ prData # NONE
  /\ cfg.skipAuthors.t = "string"
  /\ prData.author.t = "string"
  /\ \E name \in {<<"dev">>, <<"bot">>} :
       /\ prData.author.s = name
       /\ StrIncludes(cfg.skipAuthors.s, name)

\* C1 (as amended): when the skipAuthors list contains the fetched snapshot's
\* author, neither generateValidationPrompt nor validateContent is called in
\* that run and the pipeline returns a verdict flagged skipped = true; validate
\* returns that verdict unless its timer fired before the fetch completed.
C1_SkipShortCircuit ==
  AuthorListed =>
    /\ ~HasOp(log, {"generateValidationPrompt", "validateContent", "generateContent"})
    /\ ppc = "done" /\ pres.ok /\ FlaggedSkipped(pres.v)
    /\ IF HasOp(log, {"timer"})
         THEN vstate = Rejected(<<"Validation timeout after 30 seconds">>)
         ELSE vstate = Resolved(pres.v)

C1_Witness ==
  /\ AuthorListed
  /\ vstate.st = "resolved"
  /\ FlaggedSkipped(vstate.v)
  /\ cfg.harness = "validate"

\* C1 (as stated): when the skipAuthors list contains the fetched snapshot's
\* author, the run of validate returns a verdict flagged skipped = true.
C1_AlwaysReturnsSkipped ==
  AuthorListed => (vstate.st = "resolved" /\ FlaggedSkipped(vstate.v))

\* the timer fired while the pipeline had not completed
TimerBeatPipeline ==
  \E i \in Ops("timer") : \A j \in Ops("performValidation:settle") : i < j

\* C2: if the pipeline has not completed when the 30-second timer fires,
\* validate rejects with "Validation timeout after 30 seconds" and returns no
\* verdict in that run, also once the pipeline completes later.
C2_TimeoutRejects ==
  TimerBeatPipeline =>
    /\ \A i \in Ops("timer") : log[i].after = 30
    /\ vstate = Rejected(<<"Validation timeout after 30 seconds">>)
    /\ ~HasOp(log, {"validate:resolve"})
    /\ cfg.harness = "run" =>
         out = [failed |-> Str(<<"Action failed: ",
                                 "Validation timeout after 30 seconds">>),
                commentUrl |-> UNDEF]

C2_Witness ==
  /\ TimerBeatPipeline
  /\ HasOp(log, {"generateContent:settle"})
  /\ ppc = "done"
  /\ pres.ok

\* the run that just ended published with every comment call served, and so
\* did the run before it, under the same identifier
TwoCleanPublishes ==
  /\ prev.pub
  /\ rpc = "exit"
  /\ out.commentUrl # UNDEF
  /\ ~HasOp(log, CommentThrows)
  /\ prev.identifier = cfg.identifier

OneTrackedComment ==
  LET c == Carriers(comments, cfg.identifier)
  IN  /\ Cardinality(c) = 1
      /\ \A i \in c : /\ comments[i].id = prev.wrote
                      /\ comments[i].body
                           = <<"<!-- ", cfg.identifier, " -->", "\n">> \o formatted
      /\ formatted = FormatBody(vstate.v, Timestamp(run))
      /\ ~HasOp(log, {"createComment"})
      /\ \E i \in Ops("updateComment") : log[i].id = prev.wrote
      /\ out.commentUrl = Num(prev.wrote)

\* C3 (as amended): two sequential publish runs under one identifier, all of
\* whose provider calls succeed, on a PR where at most one comment carried the
\* identifier's marker before the first run, leave exactly one comment carrying
\* the marker; its body is the second rendering, and the second run updates
\* the comment the first wrote and never calls createComment.
C3_UpdateInPlace ==
  (TwoCleanPublishes /\ prev.before <= 1) => OneTrackedComment

C3_Witness ==
  /\ TwoCleanPublishes
  /\ prev.before = 0
  /\ run = 2

\* C3 (as stated): two sequential publish runs under one identifier, all of
\* whose provider calls succeed, leave exactly one comment carrying the marker.
C3_AnyStartingComments == TwoCleanPublishes => OneTrackedComment

C4_Fallback ==
  [status |-> Str(<<"FAIL">>),
   issues |-> Arr(<<Str(<<"AI validation unavailable - please review manually">>)>>),
   improved_title |-> Str(<<>>),
   improved_commits |-> Str(<<>>),
   improved_description |-> Str(<<>>),
   tokenUsage |-> [promptTokens |-> Num(0), completionTokens |-> Num(0),
                   totalTokens |-> Num(0)]]

\* C4: whatever the model call does, validateContent resolves and never
\* rejects; when the call rejects or its response is unusable or no valid JSON,
\* it resolves to exactly the fallback verdict (FAIL, the one manual-review
\* issue, empty improved_* fields, all token counters zero).
C4_NeverRejects ==
  /\ ~HasOp(log, {"validateContent:throw"})
  /\ \A i \in Ops("generateContent:settle") :
       /\ i < Len(log)
       /\ log[i + 1].op = "validateContent:return"
       /\ log[i].failed => verdict = C4_Fallback
  /\ \A i \in Ops("validateContent") :
       i < Len(log) => log[i + 1].op \in {"validateContent:return", "generateContent"}

C4_Witness ==
  /\ \E i \in Ops("generateContent:settle") : log[i].failed
  /\ HasOp(log, {"validateContent:return"})
  /\ verdict = C4_Fallback

\* extractPRData rejected before the timer fired
ExtractFailedInTime ==
  \E i \in Ops("extractPRData:throw") : \A j \in Ops("timer") : i < j

\* C5: if extractPRData rejects before the deadline, validate rejects with
\* that error, validateContent is never called, and the action run makes no
\* comment lookup, update or creation and ends reporting failure (setFailed).
C5_FetchFailureFatal ==
  ExtractFailedInTime =>
    /\ ~pres.ok
    /\ \E o \in ExtractOutcomes : o.kind = "err" /\ pres.e = ExtractError(o.e)
    /\ vstate = Rejected(pres.e)
    /\ ~HasOp(log, {"validateContent", "generateContent", "validate:resolve"})
    /\ cfg.harness = "run" =>
         /\ rpc = "exit"
         /\ ~HasOp(log, {"findCommentByIdentifier", "updateComment", "createComment"})
         /\ log[Len(log)].op = "setFailed"
         /\ out = [failed |-> Str(<<"Action failed: ">> \o pres.e),
                   commentUrl |-> UNDEF]
         /\ comments \in InitialComments \/ run > 1

C5_Witness ==
  /\ ExtractFailedInTime
  /\ cfg.harness = "run"
  /\ out.failed # UNDEF

\* C6 (as stated): in a run whose validation produced a verdict, no rejecting
\* comment operation makes the run report failure: setFailed never follows a
\* failed findCommentByIdentifier, updateComment or createComment.
C6_CommentFailureNeverFails ==
  \A i \in 1..(Len(log) - 1) :
    log[i].op \in CommentThrows => log[i + 1].op # "setFailed"

\* C7: when findCommentByIdentifier rejects, or updateComment rejects after a
\* comment was found, a warning is logged in place of the error, createComment
\* is called with the same rendered body and identifier, and the id that
\* createComment returns is the id in the comment URL.
C7_CreateFallback ==
  \A i \in Ops("findCommentByIdentifier:throw") \cup Ops("updateComment:throw") :
    /\ i + 2 <= Len(log)
    /\ log[i + 1].op = "warning"
    /\ log[i + 2] = [op |-> "createComment", body |-> formatted,
                     identifier |-> cfg.identifier]
    /\ (i + 3 <= Len(log) /\ log[i + 3].op = "createComment:return") =>
         /\ rpc = "exit"
         /\ out.commentUrl = Num(log[i + 3].id)
         /\ \E k \in 1..Len(comments) :
              /\ comments[k].id = log[i + 3].id
              /\ comments[k].body
                   = <<"<!-- ", cfg.identifier, " -->", "\n">> \o formatted
    /\ (log[i].op = "updateComment:throw") =>
         /\ i > 2
         /\ log[i - 2].op = "found"
         /\ log[i - 1] = [op |-> "updateComment", id |-> log[i - 2].id,
                          body |-> formatted, identifier |-> cfg.identifier]

C7_Witness ==
  /\ HasOp(log, {"updateComment:throw"})
  /\ HasOp(log, {"createComment:return"})
  /\ out.commentUrl # UNDEF
  /\ out.failed = UNDEF

\* the API requests of the createCommitStatus call of this run, in order
StatusRequests == SelectSeq(log, LAMBDA e : e.op = "statusRequest")

\* C8 (as stated): one createCommitStatus call issues at most 3 API requests in
\* total, however many are answered with a rate-limit response.
C8_AtMostThreeRequests == Len(StatusRequests) <= 3

\* C9 (as stated): a delay of 1 second precedes the 2nd API request of
\* createCommitStatus and a delay of 2 seconds the 3rd; no request after the
\* first is issued without a backoff delay.
C9_BackoffBeforeEachRetry ==
  LET r == StatusRequests
  IN  /\ Len(r) >= 2 => r[2].delay = 1
      /\ Len(r) >= 3 => r[3].delay = 2
      /\ \A k \in 2..Len(r) : r[k].delay > 0

PipelineOps ==
  {"extractPRData", "extractPRData:return", "extractPRData:throw", "skipCheck",
   "generateValidationPrompt", "validateContent", "generateContent",
   "generateContent:settle", "validateContent:return", "createCommitStatus",
   "statusRequest", "statusRequest:refused", "createCommitStatus:return",
   "createCommitStatus:throw",
   "performValidation:settle"}

CommentOps ==
  {"findCommentByIdentifier", "updateComment", "createComment"}

\* C10: in every run extractPRData has completed before the skip check is
\* evaluated, the skip check is evaluated before any validateContent call, and
\* every comment operation starts only after validate returned the verdict;
\* the stages never overlap or run in another order.
C10_StagesInOrder ==
  /\ Precedes({"extractPRData"}, {"extractPRData:return"})
  /\ Precedes({"extractPRData:return"}, {"skipCheck"})
  /\ Precedes({"skipCheck"},
              {"generateValidationPrompt", "validateContent", "generateContent"})
  /\ Precedes({"validate:resolve"}, CommentOps)
  /\ \A j \in 1..Len(log) :
       log[j].op \in CommentOps \cup {"validate:resolve"} =>
         \A i \in (j + 1)..Len(log) : log[i].op \notin PipelineOps
  /\ Cardinality(Ops("skipCheck")) <= 1
  /\ Cardinality(Ops("validateContent")) <= 1

C10_Witness ==
  /\ HasOp(log, {"generateContent:settle"})
  /\ HasOp(log, {"updateComment:return"})
  /\ rpc = "exit"

\* C11 (as stated): within one run extractPRData, validateContent,
\* findCommentByIdentifier and updateComment are each called at most once and
\* createComment at most once: nothing but the commit-status request is
\* re-invoked after it failed.
C11_NoReinvocation ==
  \A o \in {"extractPRData", "validateContent", "findCommentByIdentifier",
            "updateComment", "createComment"} :
    Cardinality(Ops(o)) <= 1

\* C12 (as amended): the 30-second timer is started when validate is called,
\* before the PR-data fetch, so it runs while the fetch is pending, and a fetch
\* that outlasts it makes validate reject with the timeout error.
C12_TimerFromCall ==
  /\ log # <<>> => timer \in {"armed", "fired"}
  /\ ppc = "extract" =>
       /\ timer = "armed" => vstate = Pending
       /\ timer = "fired" =>
            /\ vstate = Rejected(<<"Validation timeout after 30 seconds">>)
            /\ log[Len(log)] = [op |-> "validate:reject"]
            /\ ~HasOp(log, {"extractPRData:return", "extractPRData:throw"})

C12_Witness ==
  /\ ppc = "extract"
  /\ timer = "fired"
  /\ vstate.st = "rejected"

\* C12 (as stated): the timer starts only when the PR-data fetch has completed;
\* it is not running while the fetch is pending.
C12_TimerFromFetch == ppc = "extract" => timer # "armed"

\* C13: every call to validate settles no later than its 30-second timer, also
\* when extractPRData, validateContent or createCommitStatus never returns:
\* while validate is unsettled its timer is pending, and validate does settle.
C13_ValidateSettles ==
  /\ [](vstate = Pending => timer = "armed")
  /\ [](\A i \in Ops("timer") : log[i].after = 30 /\ i < Len(log)
                                 /\ log[i + 1] = [op |-> "validate:reject"])
  /\ (vstate = Pending) ~> (vstate # Pending)

C13_Witness ==
  /\ ppc \in {"model", "status"}
  /\ timer = "fired"
  /\ vstate = Rejected(<<"Validation timeout after 30 seconds">>)

\* validateContent returned before the timer fired
ModelReturnedInTime ==
  \E i \in Ops("validateContent:return") : \A j \in Ops("timer") : i < j

\* C14 (as stated): on the invoke branch, whenever validateContent resolves
\* before the deadline, validate resolves to exactly the verdict
\* validateContent returned.
C14_VerdictPassedThrough ==
  (ModelReturnedInTime /\ vstate # Pending) => vstate = Resolved(verdict)

\* C15 (as stated): validate never calls createCommitStatus on any path.
C15_NoCommitStatusCall ==
  ~HasOp(log, {"createCommitStatus", "statusRequest"})

C16_DefaultPass ==
  [status |-> Str(<<"PASS">>), issues |-> Arr(<<>>),
   improved_title |-> Str(<<>>), improved_commits |-> Str(<<>>),
   improved_description |-> Str(<<>>)]

\* C16 (as stated): without a GitHub client validate resolves to the default
\* PASS verdict with an empty issues list and calls no client.
C16_NoGithubDefaultPass ==
  (cfg # NONE /\ ~cfg.github) =>
    /\ vstate.st = "resolved"
    /\ "status" \in DOMAIN vstate.v /\ vstate.v.status = Str(<<"PASS">>)
    /\ "issues" \in DOMAIN vstate.v /\ vstate.v.issues = Arr(<<>>)
    /\ log = <<Ev("validate"), Ev("performValidation:settle"), Ev("validate:resolve")>>

\* C17 (as stated): with a GitHub client and no Gemini client, after a
\* successful fetch whose author is not skipped, validate resolves to the
\* default PASS verdict with empty issues and empty improved_* fields, and
\* extractPRData is called exactly once.
C17_NoGeminiDefaultPass ==
  (/\ cfg # NONE /\ cfg.github /\ ~cfg.gemini
   /\ HasOp(log, {"extractPRData:return"})
   /\ ~AuthorListed
   /\ ~HasOp(log, {"timer"})
   /\ vstate # Pending) =>
    /\ vstate = Resolved(C16_DefaultPass)
    /\ Cardinality(Ops("extractPRData")) = 1

\* C18 (as stated): every verdict returned with skipped = true has status
\* PASS, exactly the one issue "Validation skipped for automated PR by
\* <author>", and empty improved_* fields.
C18_SkippedIsPass ==
  (vstate # NONE /\ vstate.st = "resolved" /\ FlaggedSkipped(vstate.v)) =>
    /\ DOMAIN vstate.v = DOMAIN C16_DefaultPass \cup {"skipped"}
    /\ vstate.v.status = Str(<<"PASS">>)
    /\ vstate.v.issues
         = Arr(<<Str(<<"Validation skipped for automated PR by ">> \o prData.author.s)>>)
    /\ vstate.v.improved_title = Str(<<>>)
    /\ vstate.v.improved_commits = Str(<<>>)
    /\ vstate.v.improved_description = Str(<<>>)

\* a validateContent call, made with a prompt that does not take the legacy
\* branch, has settled
VcSettled ==
  /\ call # NONE
  /\ call.st = "settled"
  /\ ~StrIncludes(call.prompt, <<"Invalid commit message format">>)

\* C19 (as stated): every verdict validateContent returns has status PASS,
\* FAIL or WARNINGS and issues a list of strings, whatever JSON the model
\* returned.
C19_WellTypedVerdict ==
  (call # NONE /\ call.st = "settled") =>
    /\ call.result.ok
    /\ call.result.v.status \in {Str(<<"PASS">>), Str(<<"FAIL">>), Str(<<"WARNINGS">>)}
    /\ call.result.v.issues.t = "array"
    /\ \A i \in 1..Len(call.result.v.issues.a) :
         call.result.v.issues.a[i].t = "string"

RequiredFields ==
  {"status", "issues", "improved_title", "improved_commits", "improved_description"}

FallbackIssues ==
  Arr(<<Str(<<"AI validation unavailable - please review manually">>)>>)

\* the model call threw, gave no usable text, or its text was no JSON or null
VcFailed(o) == o.kind # "text" \/ o.json.t \in {"invalid", "null"}

\* the parsed JSON is no object or lacks a required field
VcIncomplete(o) ==
  /\ ~VcFailed(o)
  /\ \/ o.json.t # "object"
     \/ \E f \in RequiredFields : f \notin DOMAIN o.json.o

VcDefault(f) ==
  IF f = "status" THEN Str(<<"FAIL">>)
  ELSE IF f = "issues" THEN Arr(<<>>)
  ELSE Str(<<>>)

RunSucceeded ==
  /\ cfg # NONE
  /\ cfg.harness = "run"
  /\ rpc = "exit"
  /\ out.failed = UNDEF

\* C21 (as stated): every action run that completes without failure sets the
\* validation-status output and the comment-url output, and the comment-url
\* is the address of the comment published in that run.
C21_OutputsSet ==
  RunSucceeded =>
    /\ \E i \in Ops("setOutput") : log[i].name = "validation-status"
    /\ \E i \in Ops("setOutput") :
         /\ log[i].name = "comment-url"
         /\ out.commentUrl = Num(log[i].id)
         /\ \E k \in 1..Len(comments) :
              /\ comments[k].id = log[i].id
              /\ comments[k].body = CommentBody(cfg.identifier, formatted)

\* C22 (as stated): when no comment on the PR carries the identifier's marker,
\* publish calls createComment exactly once, never calls updateComment, and
\* the id in the comment URL is the id of the newly created comment.
C22_CreateOnce ==
  (HasOp(log, {"notFound"}) /\ rpc = "exit") =>
    /\ Cardinality(Ops("createComment")) = 1
    /\ ~HasOp(log, {"updateComment"})
    /\ \A i \in Ops("createComment:return") :
         /\ out.commentUrl = Num(log[i].id)
         /\ comments[Len(comments)].id = log[i].id

\* the run that just ended and the run before it both published, with every
\* comment call served, under different identifiers
BothPublished ==
  /\ prev.pub
  /\ rpc = "exit"
  /\ out.commentUrl # UNDEF
  /\ ~HasOp(log, CommentThrows)
  /\ prev.identifier # cfg.identifier

\* C23 (as stated): after publishes under identifiers A and B on the same PR
\* each identifier has its own tracked comment: the publish under B wrote
\* another comment than the publish under A did, and the comment written
\* under A still carries A's marker.
C23_OwnTrackedComments ==
  BothPublished =>
    /\ out.commentUrl # Num(prev.wrote)
    /\ \E k \in Carriers(comments, prev.identifier) : comments[k].id = prev.wrote
    /\ \E k \in Carriers(comments, cfg.identifier) : Num(comments[k].id) = out.commentUrl

\* the comment numbered id is listed with the marker line of the run's
\* identifier followed by the run's rendered body, and the lookup's test
\* matches it
WrittenWithMarker(id) ==
  \E k \in 1..Len(comments) :
    /\ comments[k].id = id
    /\ comments[k].body = <<"<!-- ", cfg.identifier, " -->", "\n">> \o formatted
    /\ k \in Carriers(comments, cfg.identifier)

Marked ==
  { k \in 1..Len(comments) :
      StrIncludes(comments[k].body, <<"<!-- ", cfg.identifier, " -->">>) }

\* C25: findCommentByIdentifier returns the first comment, in listing order,
\* whose body contains the marker '<!-- {identifier} -->', and null exactly
\* when no listed comment contains it; when several match, only that first
\* one is the update target.
C25_FirstMatch ==
  /\ \A i \in Ops("found") :
       /\ Marked # {}
       /\ \E k \in Marked : /\ \A m \in Marked : k <= m
                            /\ comments[k].id = log[i].id
       /\ existing # NONE /\ existing # JNull /\ existing.id = log[i].id
  /\ \A i \in Ops("notFound") :
       /\ existing = JNull
       /\ \A k \in Marked :
            \E j \in Ops("createComment:return") : log[j].id = comments[k].id
  /\ \A i \in Ops("updateComment") :
       /\ i > 1
       /\ log[i - 1].op = "found"
       /\ log[i].id = log[i - 1].id

C25_Witness ==
  /\ cfg # NONE
  /\ Cardinality(Marked) >= 2
  /\ \E i \in Ops("found") : \E k \in Marked : comments[k].id > log[i].id
  /\ HasOp(log, {"updateComment:return"})

\* messages of the provider errors whose status is neither 403 nor 429
OtherErrorMessages == { <<"Server Error">>, <<"Forbidden">> }

\* C26: if a createCommitStatus request fails with an error whose status is
\* neither 403 nor 429 (or that has no status), no further request is made:
\* on the first request 'Failed to create commit status: <message>' is raised
\* after exactly one request, and on a retry the retry loop ends at once with
\* an error.
C26_OtherErrorsNotRetried ==
  \A i \in Ops("statusRequest:refused") :
    /\ log[i].status \notin {Num(403), Num(429)}
    /\ i < Len(log)
    /\ log[i + 1].op = "createCommitStatus:throw"
    /\ \A j \in (i + 1)..Len(log) : log[j].op # "statusRequest"
    /\ ~pres.ok
    /\ IF Len(StatusRequests) = 1
         THEN \E m \in OtherErrorMessages :
                pres.e = <<"Failed to create commit status: ">> \o m
         ELSE \E m \in OtherErrorMessages :
                pres.e = <<"Failed to create commit status after ",
                           ToString(Len(StatusRequests) - 1), " attempts: ">> \o m

\* a request refused with no status, on the second retry
C26_Witness ==
  /\ \E i \in Ops("statusRequest:refused") : log[i].status = UNDEF
  /\ Len(StatusRequests) = 3
  /\ ppc = "done"

\* an extractPRData call has settled
ExtractSettled == call # NONE /\ call.st = "settled" /\ "fetch" \in DOMAIN call

\* the sum of field f over the files, from the first file on
RECURSIVE Total(_, _)
Total(files, f) == IF files = <<>> THEN 0 ELSE Head(files)[f] + Total(Tail(files), f)

\* C27: for every snapshot returned by extractPRData, diffStats.totalAdditions
\* is the sum of additions over its files, totalDeletions the sum of
\* deletions, totalChanges the sum of changes, and filesChanged the number of
\* files (all zero for an empty file list).
C27_DiffStatsAreSums ==
  (ExtractSettled /\ call.result.ok) =>
    LET v == call.result.v
    IN  /\ v.diffStats.totalAdditions = Total(v.files, "additions")
        /\ v.diffStats.totalDeletions = Total(v.files, "deletions")
        /\ v.diffStats.totalChanges = Total(v.files, "changes")
        /\ v.diffStats.filesChanged = Len(v.files)
        /\ Len(v.files) = Len(call.fetch.files.data)
        /\ \A i \in 1..Len(v.files) :
             /\ v.files[i].additions = call.fetch.files.data[i].additions
             /\ v.files[i].deletions = call.fetch.files.data[i].deletions
             /\ v.files[i].changes = call.fetch.files.data[i].changes
        /\ v.files = <<>> =>
             v.diffStats = [totalAdditions |-> 0, totalDeletions |-> 0,
                            totalChanges |-> 0, filesChanged |-> 0]

C27_Witness ==
  /\ ExtractSettled
  /\ call.result.ok
  /\ call.result.v.diffStats = [totalAdditions |-> 3, totalDeletions |-> 21,
                                totalChanges |-> 24, filesChanged |-> 3]

\* s is empty or consists of white space only
Blank(s) == \A i \in 1..Len(s) : s[i] \in {" ", "\t", "\n"}

InvalidArgumentErrors ==
  { <<"Invalid repository owner: owner cannot be empty">>,
    <<"Invalid repository name: repo cannot be empty">>,
    <<"Invalid PR number: must be a positive integer">> }

\* C28: extractPRData called with an empty or whitespace-only owner, an empty
\* or whitespace-only repo, or a PR number that is not a positive integer
\* rejects with an invalid-argument error without issuing any of the three
\* provider requests.
C28_InvalidArgumentsRejected ==
  ExtractSettled =>
    IF \/ Blank(call.owner)
       \/ Blank(call.repo)
       \/ call.prNumber \notin { [t |-> "number", n |-> n] : n \in 1..9 }
      THEN /\ ~call.result.ok
           /\ call.result.e \in InvalidArgumentErrors
           /\ call.result.requests = 0
      ELSE /\ call.result.requests = 3
           /\ ~call.result.ok => call.result.e \notin InvalidArgumentErrors

\* valid owner and repo, and a PR number that is no integer
C28_Witness ==
  /\ ExtractSettled
  /\ ~Blank(call.owner)
  /\ ~Blank(call.repo)
  /\ call.prNumber = [t |-> "number", n |-> 3, d |-> 2]
  /\ call.result.e = <<"Invalid PR number: must be a positive integer">>
  /\ call.result.requests = 0
  /\ call.fetch.get.kind = "ok"

\* an extractPRData call with valid arguments has settled after a request
\* was refused
FetchFailed ==
  /\ ExtractSettled
  /\ call.result.requests = 3
  /\ \E c \in {"get", "commits", "files"} : call.fetch[c].kind = "err"

\* the message of an error: the provider's own (response.data.message) when
\* there is one, else the error's
MessageOf(e) == IF "responseMessage" \in DOMAIN e THEN e.responseMessage ELSE e.message

MentionsPR(e) ==
  \/ StrIncludes(MessageOf(e), <<"Issue not found">>)
  \/ StrIncludes(MessageOf(e), <<"pull request">>)

PRNotFound == <<"Pull request #", "n", " not found in repository ", "o/r">>
RepoNotFound == <<"Repository ", "o/r", " not found or you don't have access to it">>
NoPermission == <<"Insufficient permissions to access repository ", "o/r">>

\* C29 (as amended): when the PR-data fetch fails, extractPRData raises
\* exactly one of four errors and never returns a partly filled snapshot; the
\* error follows the first rejection among the three requests, whichever
\* request it is: HTTP 404 with a message mentioning 'Issue not found' or
\* 'pull request' gives 'pull request not found', any other 404 'repository
\* not found or no access', 403 'insufficient permissions', anything else a
\* provider error wrapping the original message.
C29_FirstRejectionMapped ==
  /\ (ExtractSettled /\ call.result.requests = 3) =>
       (call.result.ok <=> ~FetchFailed)
  /\ FetchFailed =>
       LET e == call.fetch[call.fetch.first].e
       IN  /\ call.fetch[call.fetch.first].kind = "err"
           /\ DOMAIN call.result = {"ok", "e", "requests"}
           /\ call.result.e =
                IF e.status = [t |-> "number", n |-> 404]
                  THEN IF MentionsPR(e) THEN PRNotFound ELSE RepoNotFound
                ELSE IF e.status = [t |-> "number", n |-> 403] THEN NoPermission
                ELSE <<"Failed to fetch PR data: ">> \o e.message

\* the commit listing is refused with a 404 whose message names the PR
C29_Witness ==
  /\ FetchFailed
  /\ call.fetch.first = "commits"
  /\ call.fetch.get.kind = "ok"
  /\ call.result.e = PRNotFound

\* C29 (as stated): only an HTTP 404 from the PR-metadata call whose message
\* mentions 'Issue not found' or 'pull request' gives 'pull request not
\* found'; any other 404 gives 'repository not found or no access', HTTP 403
\* 'insufficient permissions', anything else a provider error wrapping the
\* original message.
C29_MetadataCall404 ==
  FetchFailed =>
    LET e == call.fetch[call.fetch.first].e
    IN  call.result.e =
          IF e.status = [t |-> "number", n |-> 404]
            THEN IF call.fetch.first = "get" /\ MentionsPR(e)
                   THEN PRNotFound ELSE RepoNotFound
          ELSE IF e.status = [t |-> "number", n |-> 403] THEN NoPermission
          ELSE <<"Failed to fetch PR data: ">> \o e.message

\* two generateValidationPrompt calls have returned
PromptSettled == call # NONE /\ call.st = "settled" /\ "promptA" \in DOMAIN call

\* the two snapshots agree on title, description, and every commit's message
\* and author name
SameText(a, b) ==
  /\ a.title = b.title
  /\ a.body = b.body
  /\ Len(a.commits) = Len(b.commits)
  /\ \A i \in 1..Len(a.commits) :
       /\ a.commits[i].message = b.commits[i].message
       /\ a.commits[i].author.name = b.commits[i].author.name

\* C30: the prompt depends only on the PR title, the PR description, each
\* commit's message and author name, and the guidelines text: two snapshots
\* that agree on those but differ in files, diffStats, PR number, author login
\* or commit shas produce identical prompts.
C30_PromptFromTextOnly ==
  (PromptSettled /\ SameText(call.a, call.b)) => call.promptA = call.promptB

C30_Witness ==
  /\ PromptSettled
  /\ SameText(call.a, call.b)
  /\ call.a.commits # <<>>
  /\ call.a.files # call.b.files
  /\ call.a.diffStats # call.b.diffStats
  /\ call.a.number # call.b.number
  /\ call.a.author # call.b.author
  /\ call.a.commits[1].sha # call.b.commits[1].sha
  /\ call.promptA = call.promptB

\* C31 (as stated): every verdict returned with status PASS and without the
\* skipped flag has an empty issues list, whatever the model returned.
C31_PassHasNoIssues ==
  (call # NONE /\ call.st = "settled" /\ "outcome" \in DOMAIN call
   /\ call.result.v.status = Str(<<"PASS">>)) =>
    call.result.v.issues = Arr(<<>>)

\* both constructors were called with a complete configuration
CtorSettled ==
  /\ call # NONE
  /\ call.st = "settled"
  /\ "config" \in DOMAIN call
  /\ call.config.geminiApiKey # <<>>
  /\ call.config.guidelinesFile # <<>>

\* C32 (as stated): the GitHubClient constructor and the Validator constructor
\* accept any non-empty string as the GitHub token and reject only an empty
\* token; a token accepted by one of them is never rejected by the other.
C32_AnyNonEmptyToken ==
  CtorSettled =>
    /\ call.client.ok <=> call.config.githubToken # <<>>
    /\ call.validator.ok <=> call.config.githubToken # <<>>

\* formatToMarkdown returned the comment of a verdict
FormatSettled ==
  /\ call # NONE
  /\ call.st = "settled"
  /\ "validationResult" \in DOMAIN call
  /\ call.markdown.ok

\* the first 1000 characters and '...' of a longer string, the string itself otherwise
Cut(s) == IF Len(s) > 1000 THEN SubSeq(s, 1, 1000) \o <<"...">> ELSE s

Suggestions(v) ==
  { s \in { v.improved_title.s, v.improved_commits.s, v.improved_description.s } :
      Trim(s) # <<>> }

IssuesCut ==
  LET issues == call.validationResult.issues.a
  IN  \A i \in 1..Len(issues) :
        /\ StrIncludes(call.markdown.md, <<"- ">> \o Cut(issues[i].s) \o <<"\n">>)
        /\ Len(issues[i].s) > 1000 => ~StrIncludes(call.markdown.md, issues[i].s)

\* C33 (as stated): in the rendered comment every issue string and every
\* suggestion string longer than 1000 characters is cut to its first 1000
\* characters followed by '...', and shorter ones are rendered unchanged.
C33_LongStringsCut ==
  FormatSettled =>
    /\ IssuesCut
    /\ \A s \in Suggestions(call.validationResult) :
         /\ StrIncludes(call.markdown.md, <<"[fence]\n">> \o Cut(s) \o <<"\n[fence]\n\n">>)
         /\ Len(s) > 1000 => ~StrIncludes(call.markdown.md, s)

\* C33 (amended): every issue string longer than 1000 characters is cut to its
\* first 1000 characters followed by '...', issue strings of 1000 characters
\* or fewer are rendered unchanged, and every suggestion string that is not
\* blank is rendered unchanged whatever its length.
C33_OnlyIssuesCut ==
  FormatSettled =>
    /\ IssuesCut
    /\ \A s \in Suggestions(call.validationResult) :
         StrIncludes(call.markdown.md, <<"[fence]\n">> \o s \o <<"\n[fence]\n\n">>)

\* a comment rendered from an issue and two suggestions of 1001 characters
C33_Witness ==
  /\ FormatSettled
  /\ \E i \in 1..Len(call.validationResult.issues.a) :
       Len(call.validationResult.issues.a[i].s) = 1001
  /\ Len(call.validationResult.improved_title.s) = 1001
  /\ Len(call.validationResult.improved_commits.s) = 1001

\* a run with both clients fetched the snapshot
SnapshotFetched ==
  /\ cfg # NONE
  /\ cfg.github
  /\ cfg.gemini
  /\ prData # NONE

\* the comma-separated entries of a list: its maximal stretches without a comma
Entries(list) ==
  { SubSeq(list, x[1], x[2]) :
      x \in { y \in (1..(Len(list) + 1)) \X (0..Len(list)) :
                /\ y[1] <= y[2] + 1
                /\ y[1] = 1 \/ list[y[1] - 1] = ","
                /\ y[2] = Len(list) \/ list[y[2] + 1] = ","
                /\ \A k \in y[1]..y[2] : list[k] # "," } }

\* the list is not empty and the author is not empty and is one of its
\* entries with the white space around the entry removed
AuthorIsEntry ==
  /\ cfg.skipAuthors.t = "string"
  /\ cfg.skipAuthors.s # <<>>
  /\ prData.author.t = "string"
  /\ prData.author.s # <<>>
  /\ \E e \in Entries(cfg.skipAuthors.s) : Trim(e) = prData.author.s

SkipBranchTaken == ppc = "done" /\ pres.ok /\ FlaggedSkipped(pres.v)

\* C34: validate takes the skip branch only if the skip-author list is not
\* empty and the snapshot's author is not empty and equal, as a whole string
\* and case-sensitively, to one of the comma-separated entries with the white
\* space around it removed; in every other case with both clients present,
\* generateValidationPrompt and then validateContent are each called exactly once.
C34_SkipOnlyListedAuthor ==
  SnapshotFetched =>
    /\ SkipBranchTaken => AuthorIsEntry
    /\ ~AuthorIsEntry =>
         /\ Cardinality(Ops("generateValidationPrompt")) = 1
         /\ Cardinality(Ops("validateContent")) = 1
         /\ Precedes({"generateValidationPrompt"}, {"validateContent"})

\* the author " bot" was validated under the list "dev, bot"
C34_Witness ==
  /\ SnapshotFetched
  /\ cfg.skipAuthors = Str(<<"dev", ",", " ", "bot">>)
  /\ prData.author = Str(<<" ", "bot">>)
  /\ Ops("validateContent") # {}

\* validateContent was called in this run, with the prompt of the snapshot
ValidateContentCalled == cfg # NONE /\ Ops("validateContent") # {}

PromptOfRun == GenerateValidationPrompt(prData, GuidelinesFile)

\* the entry that follows the call of validateContent is its return
ReturnsAtOnce ==
  \A i \in Ops("validateContent") :
    i < Len(log) /\ log[i + 1].op = "validateContent:return"

\* C35: for a prompt that contains 'Invalid commit message format',
\* validateContent returns status FAIL with issues ['Fix commit message format']
\* and empty improved fields without making a model call; for every prompt
\* that does not contain it, exactly one model request is made.
C35_LegacyPromptShortCircuits ==
  ValidateContentCalled =>
    IF StrIncludes(PromptOfRun, <<"Invalid commit message format">>)
      THEN /\ Ops("generateContent") = {}
           /\ ReturnsAtOnce
           /\ verdict # NONE
           /\ verdict.status = Str(<<"FAIL">>)
           /\ verdict.issues = Arr(<<Str(<<"Fix commit message format">>)>>)
           /\ verdict.improved_title = Str(<<>>)
           /\ verdict.improved_commits = Str(<<>>)
           /\ verdict.improved_description = Str(<<>>)
      ELSE Cardinality(Ops("generateContent")) = 1

\* validateContent returned on a prompt whose second commit message holds the phrase
C35_Witness ==
  /\ ValidateContentCalled
  /\ Len(prData.commits) = 2
  /\ StrIncludes(prData.commits[2].message, <<"Invalid commit message format">>)
  /\ Ops("validateContent:return") # {}

\* C36 (as stated): once validate has rejected with the timeout error, the
\* abandoned pipeline of that run starts no createCommitStatus request and no
\* other write to the repository provider.
C36_NoWriteAfterTimeout ==
  \A i \in Ops("timer") :
    \A j \in (i + 1)..Len(log) :
      log[j].op \notin {"createCommitStatus", "statusRequest"}

\* the pipeline settled and the timer had not rejected validate before
PipelineWon ==
  /\ cfg # NONE
  /\ ppc = "done"
  /\ pres # NONE
  /\ \A i \in Ops("timer") : \E j \in Ops("performValidation:settle") : j < i

\* C37: validate settles exactly once: when the pipeline resolves or rejects
\* before the timer fires, the caller observes the pipeline's outcome, and the
\* later firing of the timer neither changes it nor surfaces a timeout error.
C37_PipelineOutcomeStands ==
  /\ Cardinality(Ops("validate:resolve") \cup Ops("validate:reject")) <= 1
  /\ PipelineWon =>
       /\ vstate = (IF pres.ok THEN Resolved(pres.v) ELSE Rejected(pres.e))
       /\ Cardinality(Ops("validate:resolve") \cup Ops("validate:reject")) = 1
       /\ Ops("timer") = {}

\* the timer fired after the pipeline had resolved validate
C37_Witness ==
  /\ PipelineWon
  /\ cfg.github
  /\ timer = "fired"
  /\ vstate.st = "resolved"

\* both runs finished publishing under one identifier and no call of theirs threw
BothFinished ==
  /\ call # NONE
  /\ "pub" \in DOMAIN call
  /\ \A p \in Publishers : call.pub[p].pc = "exit" /\ ~call.pub[p].threw
  /\ call.pub[1].identifier = call.pub[2].identifier

\* C38 (as stated): if two action runs publish concurrently for the same PR and
\* identifier, then for every interleaving of their find, update and create
\* calls in which all calls succeed, at most one comment carries that
\* identifier's marker when both runs have finished (on a PR on which at most
\* one carried it before).
C38_ConcurrentRunsOneComment ==
  (BothFinished /\ call.before <= 1) =>
    Cardinality(Carriers(comments, call.pub[1].identifier)) <= 1

\* findCommentByIdentifier returned a comment to a run while two or more
\* comments carry the run's marker: an older one and the comments created
\* after its update had failed
FoundAmongSeveral ==
  /\ cfg # NONE
  /\ rpc = "update"
  /\ Cardinality(Carriers(comments, cfg.identifier)) >= 2

\* C39 (as stated): after a publish whose updateComment failed and fell back to
\* creating a new tracked comment N while the older tracked comment still
\* exists, every later publish for the same PR and identifier finds and
\* updates N rather than the older comment.
C39_LaterRunsUpdateNewest ==
  FoundAmongSeveral =>
    \A i \in Carriers(comments, cfg.identifier) : comments[i].id <= existing.id

====
